---- MODULE Spec2Model ----
(***************************************************************************)
(* A model of the text-checking core of naspch_bot: the configuration      *)
(* loader (src/src/utils/config_loader.py), the Google Sheets rule feeds   *)
(* (src/src/utils/google_sheets_loader.py), the message validator, the     *)
(* four checkers, the formatter and TextChecker (src/src/text_checker.py), *)
(* driven by the handlers of src/src/bot.py.                               *)
(*                                                                         *)
(* Python strings that the code scans are sequences of one-character       *)
(* strings; strings that are only displayed are TLA+ strings.  The parser  *)
(* accepts ASCII only, so the Cyrillic literals of the source are written  *)
(* in Latin transliteration ("TG-kanal", "perenos stroki", "probel") and   *)
(* the emoji as bracketed tags; the letter class [a-zA-Z] stands for the   *)
(* source's Cyrillic-or-Latin class.                                       *)
(*                                                                         *)
(* Python objects that are shared by reference (the configuration dict)    *)
(* live in heap, a map from object ids to values; a dict assignment        *)
(* d[k] = v updates the object in place, self.config = ... rebinds.        *)
(*                                                                         *)
(* The handlers of bot.py are coroutines of one asyncio event loop and     *)
(* call TextChecker and ConfigLoader synchronously (no await, no thread),  *)
(* so each handler's work on the shared state is one atomic action.  The   *)
(* config file and the spreadsheet are changed by the outside world        *)
(* between the handlers.                                                   *)
(***************************************************************************)
EXTENDS Integers, Sequences, FiniteSets, TLC

VARIABLES
    file,           \* the config file on disk: status, mtime, content
    clock,          \* the file system's time (the mtime of the next write)
    sheets,         \* google_sheets_loader: "none", "unavailable", "available"
    feed,           \* the two spreadsheet feeds: rows, or failing
    heap,           \* object id -> configuration dict
    config,         \* ConfigLoader.config (an object id)
    last_modified,  \* ConfigLoader.last_modified
    comp,           \* TextChecker's components, as _init_components built them
    added,          \* the custom rule the last change of a rule source added
    op,             \* the operation that ran last
    raised,         \* whether the last operation raised to its caller
    out,            \* what the last operation returned / observed
    pre             \* what was in force before the last operation

vars == <<file, clock, sheets, feed, heap, config, last_modified, comp,
          added, op, raised, out, pre>>

---------------------------------------------------------------------------
(* Bounds of the model.                                                    *)

\* file writes the model follows (the clock stops there)
MaxTime == 2
\* tokens of a generated message text
MaxTokens == 5
\* largest min_text_length a generated validator is built with
MaxMinLen == 2
\* misspellings in a generated answer of the spelling oracle
MaxErrors == 2
\* words of a generated body for the custom rules checker
MaxWords == 3
\* pieces of a generated body for the space checker
MaxPieces == 5
\* parts of a generated body for the channel rules checker
MaxParts == 4
\* largest show_suggestions_count a generated formatter is built with
MaxShown == 2

---------------------------------------------------------------------------
(* Characters and strings.                                                 *)

\* str.isspace(): what \s matches and str.strip() removes
IsSpace(c) == c \in {" ", "\n", "\t", "\r"}

Chars(tokens) ==
    LET F[i \in 0..Len(tokens)] ==
            IF i = 0 THEN <<>> ELSE F[i - 1] \o tokens[i]
    IN  F[Len(tokens)]

\* a scanned string as a displayed string
Str(cs) ==
    LET F[i \in 0..Len(cs)] == IF i = 0 THEN "" ELSE F[i - 1] \o cs[i]
    IN  F[Len(cs)]

\* Optional values: None, or a value
None == <<>>
Some(v) == <<v>>

\* dict.get(key, default)
Get(d, key, default) == IF key \in DOMAIN d THEN d[key] ELSE default

\* s[i:].startswith(pat), i counted from 1
StartsAt(s, pat, i) ==
    /\ i >= 1
    /\ i + Len(pat) - 1 <= Len(s)
    /\ SubSeq(s, i, i + Len(pat) - 1) = pat

\* the least member of a non-empty set of numbers
Least(S) == CHOOSE i \in S : \A j \in S : i <= j

\* the least and the greatest member of a set of positions, 0 when empty
LeastOr0(S) == IF S = {} THEN 0 ELSE Least(S)
GreatestOr0(S) == IF S = {} THEN 0 ELSE CHOOSE i \in S : \A j \in S : j <= i

\* the parts of text before and after the line break at i (no break: i = 0)
SplitAt(text, i) ==
    IF i = 0
    THEN <<text>>
    ELSE <<SubSeq(text, 1, i - 1), SubSeq(text, i + 1, Len(text))>>

\* str.split("\n", 1)
split_first_line(text) ==
    SplitAt(text, LeastOr0({i \in 1..Len(text) : text[i] = "\n"}))

\* s from the first to the last of the positions K, nothing when K is empty
Between(s, K) ==
    IF K = {} THEN <<>> ELSE SubSeq(s, LeastOr0(K), GreatestOr0(K))

\* str.strip()
strip(s) == Between(s, {k \in 1..Len(s) : ~IsSpace(s[k])})

---------------------------------------------------------------------------
(* MessageValidator (src/src/utils/message_validator.py).                  *)

LinkPrefix == <<"t", ".", "m", "e", "/">>

\* re.search(r"t\.me/\S+", first_line)
LinkIn(first_line) ==
    \E i \in 1..Len(first_line) :
        /\ StartsAt(first_line, LinkPrefix, i)
        /\ i + Len(LinkPrefix) <= Len(first_line)
        /\ ~IsSpace(first_line[i + Len(LinkPrefix)])

\* the link looked for in the whole text
is_rayters_message_any_line(text) ==
    IF text = <<>>
    THEN FALSE
    ELSE LinkIn(text)

is_rayters_message(text) ==
    IF text = <<>>
    THEN FALSE
    ELSE LinkIn(split_first_line(text)[1])

\* lines: what text.split("\n", 1) gave
BodyOf(lines, min_text_length) ==
    IF Len(lines) > 1
    THEN IF Len(strip(lines[2])) < min_text_length
         THEN None
         ELSE Some(lines[2])
    ELSE None

\* the length test on the untrimmed body
BodyOfUntrimmed(lines, min_text_length) ==
    IF Len(lines) > 1
    THEN IF Len(lines[2]) < min_text_length
         THEN None
         ELSE Some(lines[2])
    ELSE None

extract_text_to_check_untrimmed(text, min_text_length) ==
    BodyOfUntrimmed(split_first_line(text), min_text_length)

\* the trimmed body returned
BodyOfTrimmed(lines, min_text_length) ==
    IF Len(lines) > 1
    THEN IF Len(strip(lines[2])) < min_text_length
         THEN None
         ELSE Some(strip(lines[2]))
    ELSE None

extract_text_to_check_trimmed(text, min_text_length) ==
    BodyOfTrimmed(split_first_line(text), min_text_length)

extract_text_to_check(text, min_text_length) ==
    BodyOf(split_first_line(text), min_text_length)

\* the pair validate_and_extract returns for an extracted body
Verdict(text_to_check) ==
    IF text_to_check = None
    THEN <<FALSE, None>>
    ELSE <<TRUE, text_to_check>>

\* (is_valid, text_to_check)
validate_and_extract(text, min_text_length) ==
    IF ~is_rayters_message(text)
    THEN <<FALSE, None>>
    ELSE Verdict(extract_text_to_check(text, min_text_length))

---------------------------------------------------------------------------
(* Character classes and case folding.                                     *)

UpperCase ==
    <<"A", "B", "C", "D", "E", "F", "G", "H", "I", "J", "K", "L", "M",
      "N", "O", "P", "Q", "R", "S", "T", "U", "V", "W", "X", "Y", "Z">>

LowerCase ==
    <<"a", "b", "c", "d", "e", "f", "g", "h", "i", "j", "k", "l", "m",
      "n", "o", "p", "q", "r", "s", "t", "u", "v", "w", "x", "y", "z">>

Digits == {"0", "1", "2", "3", "4", "5", "6", "7", "8", "9"}

\* the class [a-zA-Z] (with the Cyrillic ranges of the source)
IsLetter(c) ==
    \E i \in 1..Len(UpperCase) : c = UpperCase[i] \/ c = LowerCase[i]

\* \w
IsWord(c) == IsLetter(c) \/ c \in Digits \/ c = "_"

LowerChar(c) ==
    IF \E i \in 1..Len(UpperCase) : c = UpperCase[i]
    THEN LowerCase[CHOOSE i \in 1..Len(UpperCase) : c = UpperCase[i]]
    ELSE c

\* str.lower()
lower(s) == [i \in 1..Len(s) |-> LowerChar(s[i])]

\* pat in s
Contains(s, pat) == \E i \in 1..(Len(s) + 1) : StartsAt(s, pat, i)

\* the end of the longest run of characters with P that starts at i
\* (i - 1 when there is none)
RunEnd(s, i, P(_)) ==
    CHOOSE k \in (i - 1)..Len(s) :
        /\ \A j \in i..k : P(s[j])
        /\ k = Len(s) \/ ~P(s[k + 1])

NonSpace(c) == ~IsSpace(c)
IsBlank(c) == c = " "

\* re.finditer: the matches of a pattern left to right, each search
\* starting where the previous match ended.  MatchEnd(s, i) is the last
\* index of the match that starts at i, or 0 when none starts there.
FindIter(s, MatchEnd(_, _)) ==
    LET F[p \in 1..(Len(s) + 1)] ==
            IF p > Len(s)
            THEN <<>>
            ELSE IF MatchEnd(s, p) # 0
                 THEN <<p>> \o F[MatchEnd(s, p) + 1]
                 ELSE F[p + 1]
    IN  F[1]

---------------------------------------------------------------------------
(* CustomRulesChecker (src/src/checkers/custom_rules_checker.py).          *)

\* wrong matched as a pattern in which "." stands for any character
LiteralEnd_dot_any(s, wrong, case_sensitive, i) ==
    IF /\ i + Len(wrong) - 1 <= Len(s)
       /\ \A k \in 1..Len(wrong) :
              \/ wrong[k] = "."
              \/ IF case_sensitive
                 THEN s[i + k - 1] = wrong[k]
                 ELSE LowerChar(s[i + k - 1]) = LowerChar(wrong[k])
    THEN i + Len(wrong) - 1
    ELSE 0

\* the end of a match of re.escape(wrong) at i
LiteralEnd(s, wrong, case_sensitive, i) ==
    IF /\ i + Len(wrong) - 1 <= Len(s)
       /\ LET m == SubSeq(s, i, i + Len(wrong) - 1)
          IN  IF case_sensitive THEN m = wrong ELSE lower(m) = lower(wrong)
    THEN i + Len(wrong) - 1
    ELSE 0

\* the findings of a rule whose matches start at the places at
CustomFindings(text, wrong, correct, at) ==
    [k \in 1..Len(at) |->
        [type |-> "custom",
         word |-> Str(SubSeq(text, at[k], at[k] + Len(wrong) - 1)),
         suggestion |-> Str(correct),
         message |-> "Nepravilnoe napisanie"]]

CustomRuleMatches(text, rule) ==
    LET wrong == Get(rule, "wrong", <<>>)
        correct == Get(rule, "correct", <<>>)
        case_sensitive == Get(rule, "case_sensitive", FALSE)
        End(s, i) == LiteralEnd(s, wrong, case_sensitive, i)
    IN  CustomFindings(text, wrong, correct,
                       IF wrong = <<>> \/ correct = <<>>
                       THEN <<>>
                       ELSE FindIter(text, End))

\* the findings of a later rule put before those of an earlier one
CustomRulesChecker_check_last_first(text, custom_rules) ==
    LET F[n \in 0..Len(custom_rules)] ==
            IF n = 0
            THEN <<>>
            ELSE CustomRuleMatches(text, custom_rules[n]) \o F[n - 1]
    IN  F[Len(custom_rules)]

CustomRulesChecker_check(text, custom_rules) ==
    LET F[n \in 0..Len(custom_rules)] ==
            IF n = 0
            THEN <<>>
            ELSE F[n - 1] \o CustomRuleMatches(text, custom_rules[n])
    IN  F[Len(custom_rules)]

CustomRulesChecker_is_enabled(cfg) ==
    Get(Get(cfg, "checks", <<>>), "custom_rules", TRUE)

---------------------------------------------------------------------------
(* SpellingChecker (src/src/checkers/spelling_checker.py).  The oracle's   *)
(* answer is an input.  ok: the request, raise_for_status(), json() and    *)
(* the walk over the decoded value all went through without an exception   *)
(* (fault names what raised otherwise); errors: the decoded list of        *)
(* objects.  A key of an object may be missing, and "s" may hold a list    *)
(* of strings, Some(list), or a JSON null, None.                           *)

SpellingChecker_ignore_words(cfg) ==
    LET ws == Get(cfg, "ignore_words", <<>>)
    IN  [i \in 1..Len(ws) |-> lower(ws[i])]

\* the finding for one entry of the oracle's answer; suggestions is the
\* value of its key "s" as it came (a list, or None for a JSON null)
SpellingFound(word, s) ==
    [type |-> "spelling",
     word |-> Str(word),
     suggestions |-> IF s = None
                     THEN None
                     ELSE Some([i \in 1..Len(s[1]) |-> Str(s[1][i])]),
     message |-> "Orfograficheskaya oshibka"]

SpellingFinding(error) ==
    SpellingFound(Get(error, "word", <<>>), Get(error, "s", Some(<<>>)))

\* the filter comparing the word as the oracle spelled it
_format_errors_as_spelled(errors, ignore_words) ==
    LET F[n \in 0..Len(errors)] ==
            IF n = 0
            THEN <<>>
            ELSE IF \E i \in 1..Len(ignore_words) :
                        ignore_words[i] = Get(errors[n], "word", <<>>)
                 THEN F[n - 1]
                 ELSE Append(F[n - 1], SpellingFinding(errors[n]))
    IN  F[Len(errors)]

_format_errors(errors, ignore_words) ==
    LET F[n \in 0..Len(errors)] ==
            IF n = 0
            THEN <<>>
            ELSE IF \E i \in 1..Len(ignore_words) :
                        ignore_words[i] = lower(Get(errors[n], "word", <<>>))
                 THEN F[n - 1]
                 ELSE Append(F[n - 1], SpellingFinding(errors[n]))
    IN  F[Len(errors)]

SpellingChecker_check(oracle, ignore_words) ==
    IF oracle.ok THEN _format_errors(oracle.errors, ignore_words) ELSE <<>>

SpellingChecker_is_enabled(cfg) ==
    Get(Get(cfg, "checks", <<>>), "spelling", TRUE)

---------------------------------------------------------------------------
(* SpaceChecker (src/src/checkers/space_checker.py).  Each pattern is      *)
(* matched as the backtracking matcher does: \S+ takes the rest of the     *)
(* token, and giving characters back never makes a space follow it.        *)

Punct == {",", ".", "!", "?", ";", ":"}

\* the pattern with one space enough for group 2
MultipleSpacesSpan_one_space(s, a, b) ==
    IF b - a >= 1 /\ b < Len(s) /\ ~IsSpace(s[b + 1])
    THEN <<a, b, RunEnd(s, b + 1, NonSpace)>>
    ELSE <<0, 0, 0>>

\* (\S+)( {2,})(\S+) with group 1 ending at a and group 2 at b
MultipleSpacesSpan(s, a, b) ==
    IF b - a >= 2 /\ b < Len(s) /\ ~IsSpace(s[b + 1])
    THEN <<a, b, RunEnd(s, b + 1, NonSpace)>>
    ELSE <<0, 0, 0>>

MultipleSpacesFrom(s, a) == MultipleSpacesSpan(s, a, RunEnd(s, a + 1, IsBlank))

\* (\S+)( {2,})(\S+) at i: the end of group 1, of group 2 and of the match
MultipleSpacesAt(s, i) ==
    IF i > Len(s) \/ IsSpace(s[i])
    THEN <<0, 0, 0>>
    ELSE MultipleSpacesFrom(s, RunEnd(s, i, NonSpace))

MultipleSpacesEnd(s, i) == MultipleSpacesAt(s, i)[3]

\* the finding for the match m that starts at i
MultipleSpacesFinding(text, i, m) ==
    [type |-> "space",
     word |-> Str(SubSeq(text, i, m[3])),
     suggestion |-> Str(SubSeq(text, i, m[1])) \o " "
                        \o Str(SubSeq(text, m[2] + 1, m[3])),
     message |-> "Lishnie probely (" \o ToString(m[2] - m[1])
                     \o " podryad)"]

MultipleSpacesFindings(text, at) ==
    [k \in 1..Len(at) |->
        MultipleSpacesFinding(text, at[k], MultipleSpacesAt(text, at[k]))]

_check_multiple_spaces(text) ==
    MultipleSpacesFindings(text, FindIter(text, MultipleSpacesEnd))

\* (\S+)( +)([,.!?;:]) with group 1 ending at a and group 2 at b
SpaceBeforePunctSpan(s, a, b) ==
    IF b - a >= 1 /\ b < Len(s) /\ s[b + 1] \in Punct
    THEN <<a, b + 1>>
    ELSE <<0, 0>>

SpaceBeforePunctFrom(s, a) ==
    SpaceBeforePunctSpan(s, a, RunEnd(s, a + 1, IsBlank))

\* (\S+)( +)([,.!?;:]) at i: the end of group 1 and of the match
SpaceBeforePunctAt(s, i) ==
    IF i > Len(s) \/ IsSpace(s[i])
    THEN <<0, 0>>
    ELSE SpaceBeforePunctFrom(s, RunEnd(s, i, NonSpace))

SpaceBeforePunctEnd(s, i) == SpaceBeforePunctAt(s, i)[2]

SpaceBeforePunctFinding(text, i, m) ==
    [type |-> "space",
     word |-> Str(SubSeq(text, i, m[2])),
     suggestion |-> Str(SubSeq(text, i, m[1])) \o text[m[2]],
     message |-> "Probel pered \"" \o text[m[2]] \o "\""]

SpaceBeforePunctFindings(text, at) ==
    [k \in 1..Len(at) |->
        SpaceBeforePunctFinding(text, at[k], SpaceBeforePunctAt(text, at[k]))]

_check_space_before_punct(text) ==
    SpaceBeforePunctFindings(text, FindIter(text, SpaceBeforePunctEnd))

\* the token from i to a: the last mark in it that a letter follows
NoSpaceAfterPunctIn(s, i, a) ==
    <<GreatestOr0({p \in (i + 1)..(a - 1) :
                       s[p] \in Punct /\ IsLetter(s[p + 1])}), a>>

\* <<0, 0>> when the token holds no such mark
NoSpaceAfterPunctMatch(m) == IF m[1] = 0 THEN <<0, 0>> ELSE m

\* (\S+)([,.!?;:])([a-zA-Z]\S*) at i: the place of group 2 and the end of
\* the match; the greedy \S+ leaves the last mark that a letter follows
NoSpaceAfterPunctAt(s, i) ==
    IF i > Len(s) \/ IsSpace(s[i])
    THEN <<0, 0>>
    ELSE NoSpaceAfterPunctMatch(
             NoSpaceAfterPunctIn(s, i, RunEnd(s, i, NonSpace)))

NoSpaceAfterPunctEnd(s, i) == NoSpaceAfterPunctAt(s, i)[2]

NoSpaceAfterPunctFinding(text, i, m) ==
    [type |-> "space",
     word |-> Str(SubSeq(text, i, m[2])),
     suggestion |-> Str(SubSeq(text, i, m[1])) \o " "
                        \o Str(SubSeq(text, m[1] + 1, m[2])),
     message |-> "Net probela posle \"" \o text[m[1]] \o "\""]

NoSpaceAfterPunctFindings(text, at) ==
    [k \in 1..Len(at) |->
        NoSpaceAfterPunctFinding(text, at[k],
                                 NoSpaceAfterPunctAt(text, at[k]))]

_check_no_space_after_punct(text) ==
    NoSpaceAfterPunctFindings(text, FindIter(text, NoSpaceAfterPunctEnd))

SpaceChecker_check(text, space_checks) ==
    (IF Get(space_checks, "multiple_spaces", TRUE)
     THEN _check_multiple_spaces(text) ELSE <<>>)
    \o (IF Get(space_checks, "space_before_punctuation", TRUE)
        THEN _check_space_before_punct(text) ELSE <<>>)
    \o (IF Get(space_checks, "no_space_after_punctuation", TRUE)
        THEN _check_no_space_after_punct(text) ELSE <<>>)

SpaceChecker_is_enabled(cfg) ==
    Get(Get(cfg, "checks", <<>>), "spaces", TRUE)

---------------------------------------------------------------------------
(* ChannelRulesChecker (src/src/checkers/channel_rules_checker.py).        *)

\* "TG-kanal" stands for the source's Cyrillic channel label
ChannelLabel == <<"T", "G", "-", "k", "a", "n", "a", "l">>
LineBreakWords ==
    <<"p", "e", "r", "e", "n", "o", "s", " ", "s", "t", "r", "o", "k", "i">>
SpaceWord == <<"p", "r", "o", "b", "e", "l">>

NotParen(c) == c # "("

\* group 1 of label\s+([^\(]+) when the label ends before n and the run
\* of white space after it ends at w: \s+ takes the whole run, and gives
\* its last character back when nothing but "(" or the end of the line
\* follows it
ChannelNameSpan(line, n, w) ==
    IF w < n
    THEN <<0, 0>>
    ELSE IF w < Len(line) /\ line[w + 1] # "("
         THEN <<w + 1, RunEnd(line, w + 1, NotParen)>>
         ELSE IF w > n
              THEN <<w, w>>
              ELSE <<0, 0>>

\* re.search(label\s+([^\(]+), first_line, re.IGNORECASE) at i: the first
\* and the last index of group 1, <<0, 0>> when no match starts at i
ChannelNameAt(line, i) ==
    IF /\ i + Len(ChannelLabel) - 1 <= Len(line)
       /\ lower(SubSeq(line, i, i + Len(ChannelLabel) - 1))
              = lower(ChannelLabel)
    THEN ChannelNameSpan(line, i + Len(ChannelLabel),
                         RunEnd(line, i + Len(ChannelLabel), IsSpace))
    ELSE <<0, 0>>

\* match.group(1).strip()
ChannelNameGroup(first_line, g) == strip(SubSeq(first_line, g[1], g[2]))

\* the leftmost match starts at i (none: i = 0)
ChannelNameFrom(first_line, i) ==
    IF i = 0
    THEN <<>>
    ELSE ChannelNameGroup(first_line, ChannelNameAt(first_line, i))

ChannelNameIn(first_line) ==
    ChannelNameFrom(first_line,
                    LeastOr0({i \in 1..Len(first_line) :
                                  ChannelNameAt(first_line, i) # <<0, 0>>}))

_extract_channel_name(text) == ChannelNameIn(split_first_line(text)[1])

\* re.search(r"@\w+", text): the first index of the match, or 0
SignatureStart(text) ==
    LeastOr0({i \in 1..(Len(text) - 1) :
                  text[i] = "@" /\ IsWord(text[i + 1])})

\* the findings for the signature that starts at i; expected_lower is
\* expected_format.lower()
SignatureFindings(text, expected_lower, i, signature) ==
    IF Contains(expected_lower, LineBreakWords)
    THEN IF i = 1 \/ text[i - 1] # "\n"
         THEN <<[type |-> "channel_signature",
                 message |-> "Podpis " \o Str(signature)
                     \o " dolzhna byt cherez perenos stroki",
                 expected |->
                     <<".", ".", ".", "t", "e", "k", "s", "t", "\n">>
                         \o signature]>>
         ELSE <<>>
    ELSE IF Contains(expected_lower, SpaceWord)
         THEN IF i > 1 /\ text[i - 1] = "\n"
              THEN <<[type |-> "channel_signature",
                      message |-> "Podpis " \o Str(signature)
                          \o " dolzhna byt cherez probel,"
                          \o " a ne na novoy stroke",
                      expected |->
                          <<".", ".", ".", "t", "e", "k", "s", "t",
                            " ">> \o signature]>>
              ELSE <<>>
         ELSE <<>>

\* the signature match starts at i (none: i = 0)
SignatureChecked(text, expected_format, channel_name, i) ==
    IF i = 0
    THEN <<[type |-> "channel_signature",
            message |-> "Otsutstvuet podpis kanala dlya "
                            \o Str(channel_name),
            expected |-> expected_format]>>
    ELSE SignatureFindings(text, lower(expected_format), i,
                           SubSeq(text, i, RunEnd(text, i + 1, IsWord)))

_check_signature_format(text, expected_format, channel_name) ==
    SignatureChecked(text, expected_format, channel_name,
                     SignatureStart(text))

\* the rules of the channel, when it has any
ChannelRulesApplied(text, channel_rules, channel_name, signature_format) ==
    IF signature_format # <<>>
    THEN _check_signature_format(text, signature_format, channel_name)
    ELSE <<>>

ChannelChecked(text, channel_rules, channel_name, channel_key) ==
    IF channel_name = <<>>
    THEN <<>>
    ELSE IF channel_key \notin DOMAIN channel_rules
         THEN <<>>
         ELSE ChannelRulesApplied(text, channel_rules, channel_name,
                  Get(channel_rules[channel_key], "signature_format", <<>>))

ChannelNamed(text, channel_rules, channel_name) ==
    ChannelChecked(text, channel_rules, channel_name, lower(channel_name))

\* check(text) with no channel_name passed
ChannelRulesChecker_check(text, channel_rules) ==
    ChannelNamed(text, channel_rules, _extract_channel_name(text))

ChannelRulesChecker_is_enabled(channel_rules) ==
    Cardinality(DOMAIN channel_rules) > 0

---------------------------------------------------------------------------
(* ErrorFormatter (src/src/utils/formatter.py).  The report is a string;   *)
(* the emoji are written as bracketed tags and the guillemets as < and >.  *)

\* the default of show_suggestions_count
DefaultSuggestionsCount == 3

\* the message decorated whatever show_emoji says
_format_no_errors_always_marked(show_emoji) ==
    "[ok] Oshibok ne naydeno!"

_format_no_errors(show_emoji) ==
    IF show_emoji
    THEN "[ok] Oshibok ne naydeno!"
    ELSE "Oshibok ne naydeno!"

_format_header(total, show_emoji) ==
    (IF show_emoji THEN "[x]" ELSE "") \o " Naydeno oshibok: "
        \o ToString(total) \o "\n\n"

\* the numbered lines of one section
NumberedLines(errors, Line(_, _)) ==
    LET F[n \in 0..Len(errors)] ==
            IF n = 0 THEN "" ELSE F[n - 1] \o Line(n, errors[n])
    IN  F[Len(errors)]

_format_custom_errors(errors, show_emoji) ==
    LET Line(i, error) ==
            ToString(i) \o ". <" \o Get(error, "word", "") \o "> -> <"
                \o Get(error, "suggestion", "") \o ">\n"
    IN  IF errors = <<>>
        THEN ""
        ELSE (IF show_emoji THEN "[pin] " ELSE "")
                 \o "**Nepravilnoe napisanie:**\n"
                 \o NumberedLines(errors, Line) \o "\n"

\* ", ".join of the quoted suggestions
JoinSuggestions(suggestions) ==
    LET F[n \in 0..Len(suggestions)] ==
            IF n = 0
            THEN ""
            ELSE F[n - 1] \o (IF n = 1 THEN "" ELSE ", ")
                     \o "<" \o suggestions[n] \o ">"
    IN  F[Len(suggestions)]

\* error.get("suggestions", [])[: max_suggestions] raises TypeError for a
\* finding whose suggestions are None
SliceRaises(errors) ==
    \E n \in 1..Len(errors) :
        Get(errors[n], "suggestions", Some(<<>>)) = None

\* (only asked of findings whose suggestions are lists)
_format_spelling_errors(errors, show_emoji, max_suggestions) ==
    LET Line(i, error) ==
            LET all == Get(error, "suggestions", Some(<<>>))[1]
                suggestions ==
                    SubSeq(all, 1, IF Len(all) < max_suggestions
                                   THEN Len(all) ELSE max_suggestions)
            IN  IF suggestions # <<>>
                THEN ToString(i) \o ". <" \o Get(error, "word", "")
                         \o "> -> " \o JoinSuggestions(suggestions) \o "\n"
                ELSE ToString(i) \o ". <" \o Get(error, "word", "")
                         \o "> - net variantov\n"
    IN  IF errors = <<>>
        THEN ""
        ELSE (IF show_emoji THEN "[memo] " ELSE "") \o "**Orfografiya:**\n"
                 \o NumberedLines(errors, Line) \o "\n"

_format_space_errors(errors, show_emoji) ==
    LET Line(i, error) ==
            ToString(i) \o ". " \o Get(error, "message", "") \o ": <"
                \o Get(error, "word", "") \o "> -> <"
                \o Get(error, "suggestion", "") \o ">\n"
    IN  IF errors = <<>>
        THEN ""
        ELSE (IF show_emoji THEN "[space] " ELSE "") \o "**Probely:**\n"
                 \o NumberedLines(errors, Line)

\* (the source's list also holds the backquote, which no text of the
\* model contains)
MarkdownSpecial ==
    {"_", "*", "[", "]", "(", ")", "~", ">", "#", "+", "-", "=", "|",
     "{", "}", ".", "!"}

\* the chain of str.replace calls: a backslash before each special character
EscapeMarkdown(expected) ==
    LET F[n \in 0..Len(expected)] ==
            IF n = 0
            THEN ""
            ELSE F[n - 1]
                     \o (IF expected[n] \in MarkdownSpecial THEN "\\" ELSE "")
                     \o expected[n]
    IN  F[Len(expected)]

_format_channel_errors(errors, show_emoji) ==
    LET Line(i, error) ==
            LET expected == Get(error, "expected", <<>>)
            IN  IF expected # <<>>
                THEN ToString(i) \o ". " \o Get(error, "message", "")
                         \o "\n   Ozhidaetsya: " \o EscapeMarkdown(expected)
                         \o "\n"
                ELSE ToString(i) \o ". " \o Get(error, "message", "") \o "\n"
    IN  IF errors = <<>>
        THEN ""
        ELSE "\n" \o (IF show_emoji THEN "[loud] " ELSE "")
                 \o "**Pravila kanala:**\n" \o NumberedLines(errors, Line)

\* format with nothing to say when nothing was found
format_silent_when_clean(errors, show_emoji, max_suggestions) ==
    IF Len(Get(errors, "spelling", <<>>)) + Len(Get(errors, "custom", <<>>))
           + Len(Get(errors, "spaces", <<>>))
           + Len(Get(errors, "channel", <<>>)) = 0
    THEN ""
    ELSE _format_header(1, show_emoji)
             \o _format_custom_errors(Get(errors, "custom", <<>>), show_emoji)

\* format with the spelling section put before the custom one
format_spelling_first(errors, show_emoji, max_suggestions) ==
    LET spelling == Get(errors, "spelling", <<>>)
        custom == Get(errors, "custom", <<>>)
        spaces == Get(errors, "spaces", <<>>)
        channel == Get(errors, "channel", <<>>)
        total == Len(spelling) + Len(custom) + Len(spaces) + Len(channel)
    IN  IF total = 0
        THEN _format_no_errors(show_emoji)
        ELSE _format_header(total, show_emoji)
                 \o _format_spelling_errors(spelling, show_emoji,
                                            max_suggestions)
                 \o _format_custom_errors(custom, show_emoji)
                 \o _format_space_errors(spaces, show_emoji)
                 \o _format_channel_errors(channel, show_emoji)

\* format raises what _format_spelling_errors raises
format_raises(errors) == SliceRaises(Get(errors, "spelling", <<>>))

\* ErrorFormatter.format (when it returns)
format(errors, show_emoji, max_suggestions) ==
    LET spelling == Get(errors, "spelling", <<>>)
        custom == Get(errors, "custom", <<>>)
        spaces == Get(errors, "spaces", <<>>)
        channel == Get(errors, "channel", <<>>)
        total == Len(spelling) + Len(custom) + Len(spaces) + Len(channel)
    IN  IF total = 0
        THEN _format_no_errors(show_emoji)
        ELSE _format_header(total, show_emoji)
                 \o _format_custom_errors(custom, show_emoji)
                 \o _format_spelling_errors(spelling, show_emoji,
                                            max_suggestions)
                 \o _format_space_errors(spaces, show_emoji)
                 \o _format_channel_errors(channel, show_emoji)

---------------------------------------------------------------------------
(* GoogleSheetsLoader (src/src/utils/google_sheets_loader.py).  A feed is  *)
(* the rows below the header of one worksheet, or fails to be fetched.     *)

\* str.replace(pat, rep)
Replace(s, pat, rep) ==
    LET F[p \in 1..(Len(s) + 1)] ==
            IF p > Len(s)
            THEN <<>>
            ELSE IF StartsAt(s, pat, p)
                 THEN rep \o F[p + Len(pat)]
                 ELSE <<s[p]>> \o F[p + 1]
    IN  F[1]

NewlineToken == <<"N", "E", "W", "L", "I", "N", "E">>

RowIsUsable(row) == Len(row) >= 2 /\ row[1] # <<>> /\ row[2] # <<>>

load_custom_rules(f) ==
    IF sheets # "available" \/ f.fails
    THEN <<>>
    ELSE LET F[n \in 0..Len(f.rows)] ==
                 IF n = 0
                 THEN <<>>
                 ELSE IF RowIsUsable(f.rows[n])
                      THEN Append(F[n - 1],
                               [wrong |-> strip(f.rows[n][1]),
                                correct |-> strip(f.rows[n][2]),
                                case_sensitive |-> FALSE])
                      ELSE F[n - 1]
         IN  F[Len(f.rows)]

\* d[key] = value
Put(d, key, value) ==
    [k \in DOMAIN d \cup {key} |-> IF k = key THEN value ELSE d[k]]

load_channel_rules(f) ==
    IF sheets # "available" \/ f.fails
    THEN <<>>
    ELSE LET F[n \in 0..Len(f.rows)] ==
                 IF n = 0
                 THEN <<>>
                 ELSE IF RowIsUsable(f.rows[n])
                      THEN Put(F[n - 1],
                               lower(strip(f.rows[n][1])),
                               [signature_format |->
                                    Replace(strip(f.rows[n][2]),
                                            NewlineToken, <<"\n">>)])
                      ELSE F[n - 1]
         IN  F[Len(f.rows)]

is_available == sheets = "available"

---------------------------------------------------------------------------
(* ConfigLoader (src/src/utils/config_loader.py).  A loader state L holds  *)
(* the heap, the loader's fields config (an object id) and last_modified,  *)
(* and exc: whether an exception is propagating.                           *)

\* the default of min_text_length
DefaultMinTextLength == 50

HeapIds == {1, 2, 3}
Free == [free |-> TRUE]

DefaultConfig ==
    [checks |-> [spelling |-> TRUE, custom_rules |-> TRUE,
                 spaces |-> TRUE, channel_rules |-> TRUE],
     ignore_words |-> <<>>,
     custom_rules |-> <<>>,
     channel_rules |-> <<>>,
     space_checks |-> [multiple_spaces |-> TRUE,
                       space_before_punctuation |-> TRUE,
                       no_space_after_punctuation |-> TRUE],
     response |-> [show_suggestions_count |-> DefaultSuggestionsCount,
                   show_emoji |-> TRUE],
     settings |-> [min_text_length |-> DefaultMinTextLength]]

\* the object id holds value, and the loader's field refers to it
Bind(L, id, value) ==
    [L EXCEPT !.heap = [L.heap EXCEPT ![id] = value], !.config = id]

\* self.config = value: a new dict object, bound to the loader's field.
\* The object the checkers hold stays where it is.
Rebind(L, value) ==
    Bind(L, Least({i \in HeapIds : L.heap[i] = Free}), value)

\* self.config[key] = value: the dict object itself changes
SetKey(L, key, value) ==
    [L EXCEPT !.heap[L.config] = Put(L.heap[L.config], key, value)]

\* the except block only logging
_use_defaults_only_logs(L) == L

_use_defaults(L) == Rebind(L, DefaultConfig)

\* the rules of the feed added to those the configuration holds
SetKeyIfAny_merging(L, key, rules) ==
    IF rules # <<>>
    THEN SetKey(L, key,
                IF key = "custom_rules"
                THEN Get(L.heap[L.config], key, <<>>) \o rules
                ELSE rules)
    ELSE L

\* if rules: self.config[key] = rules
SetKeyIfAny(L, key, rules) ==
    IF rules # <<>> THEN SetKey(L, key, rules) ELSE L

_load_from_google_sheets(L) ==
    IF sheets = "none"
    THEN L
    ELSE IF ~is_available
         THEN L
         ELSE SetKeyIfAny(
                  SetKeyIfAny(L, "custom_rules",
                              load_custom_rules(feed.custom)),
                  "channel_rules", load_channel_rules(feed.channel))

\* the try block of _load; exc: it raised (os.path.getmtime on a missing
\* file, open or json.load on an unreadable one)
LoadTry(L) ==
    IF file.status = "missing"
    THEN [L EXCEPT !.exc = TRUE]
    ELSE IF file.mtime > L.last_modified
         THEN IF file.status = "corrupt"
              THEN [L EXCEPT !.exc = TRUE]
              ELSE _load_from_google_sheets(
                       [Rebind(L, file.content)
                            EXCEPT !.last_modified = file.mtime])
         ELSE L

\* the except block of _load, for the loader as the try block left it
LoadExcept(r) ==
    IF r.exc THEN _use_defaults([r EXCEPT !.exc = FALSE]) ELSE r

_load(L) == LoadExcept(LoadTry(L))

\* what reload() returns without a spreadsheet loader
ReloadedFile(L, L1) ==
    [L |-> L1, result |-> L1.last_modified > L.last_modified]

\* reload(): the loader state after it, and what it returns
reload(L) ==
    IF sheets # "none"
    THEN [L |-> _load_from_google_sheets(L), result |-> TRUE]
    ELSE ReloadedFile(L, _load(L))

---------------------------------------------------------------------------
(* TextChecker (src/src/text_checker.py).                                  *)

\* The components built from the dict object c that get() returns, whose
\* identity is id.  cfg is the object every checker keeps as self.config;
\* the other fields are what the constructors read out of it.
\* (custom_rules and channel_rules are references into the dict, but the
\* loader only ever assigns the dict's keys and never changes a list or a
\* mapping itself.)
Components(id, c) ==
    [cfg |-> id,
     ignore_words |-> SpellingChecker_ignore_words(c),
     custom_rules |-> Get(c, "custom_rules", <<>>),
     space_checks |-> Get(c, "space_checks", <<>>),
     channel_rules |-> Get(c, "channel_rules", <<>>),
     show_emoji |-> Get(Get(c, "response", <<>>), "show_emoji", TRUE),
     max_suggestions |-> Get(Get(c, "response", <<>>),
                             "show_suggestions_count",
                             DefaultSuggestionsCount),
     min_text_length |-> Get(Get(c, "settings", <<>>), "min_text_length",
                             DefaultMinTextLength)]

_init_components(L) == Components(L.config, L.heap[L.config])

\* validate_message(text)
validate_message(text, cmp) ==
    validate_and_extract(text, cmp.min_text_length)[1]

NoResults == [spelling |-> <<>>, custom |-> <<>>, spaces |-> <<>>,
              channel |-> <<>>]

\* One step of _perform_checks: when the checker is enabled it is
\* announced (the print before it) and its findings are stored.
Step(s, enabled, name, key, findings) ==
    IF enabled
    THEN [results |-> [s.results EXCEPT ![key] = findings],
          printed |-> Append(s.printed, name)]
    ELSE s

\* _perform_checks: the results map, and printed: the checkers it
\* announces (one print before each checker it invokes), in order
_perform_checks(full_text, text_to_check, cmp, h, oracle) ==
    Step(Step(Step(Step([results |-> NoResults, printed |-> <<>>],
                        CustomRulesChecker_is_enabled(h[cmp.cfg]),
                        "custom", "custom",
                        CustomRulesChecker_check(text_to_check,
                                                 cmp.custom_rules)),
                   SpellingChecker_is_enabled(h[cmp.cfg]),
                   "spelling", "spelling",
                   SpellingChecker_check(oracle, cmp.ignore_words)),
              SpaceChecker_is_enabled(h[cmp.cfg]),
              "spaces", "spaces",
              SpaceChecker_check(text_to_check, cmp.space_checks)),
         ChannelRulesChecker_is_enabled(cmp.channel_rules),
         "channel", "channel",
         ChannelRulesChecker_check(full_text, cmp.channel_rules))

\* the rule values one check reads from its components
ValuesRead(cmp, h, valid) ==
    IF valid
    THEN [min_text_length |-> cmp.min_text_length,
          custom_enabled |-> CustomRulesChecker_is_enabled(h[cmp.cfg]),
          custom_rules |-> cmp.custom_rules,
          spelling_enabled |-> SpellingChecker_is_enabled(h[cmp.cfg]),
          ignore_words |-> cmp.ignore_words,
          spaces_enabled |-> SpaceChecker_is_enabled(h[cmp.cfg]),
          space_checks |-> cmp.space_checks,
          channel_rules |-> cmp.channel_rules,
          show_emoji |-> cmp.show_emoji,
          max_suggestions |-> cmp.max_suggestions]
    ELSE [min_text_length |-> cmp.min_text_length]

\* what check_text leaves and returns: "" when the message is not
\* reviewable, the formatted results otherwise; when format raises, the
\* exception leaves check_text (L.exc) and report names it
Checked(L1, cmp, reviewable, run) ==
    [L |-> [L1 EXCEPT !.exc = reviewable /\ format_raises(run.results)],
     comp |-> cmp,
     valid |-> reviewable,
     errors |-> run.results,
     printed |-> run.printed,
     used |-> ValuesRead(cmp, L1.heap, reviewable),
     report |-> IF reviewable
                THEN IF format_raises(run.results)
                     THEN "TypeError"
                     ELSE format(run.results, cmp.show_emoji,
                                 cmp.max_suggestions)
                ELSE ""]

\* check_text after validate_and_extract gave v
Validated(text, L1, cmp, v, oracle) ==
    Checked(L1, cmp, v[1] /\ v[2] # None,
            IF v[1] /\ v[2] # None
            THEN _perform_checks(text, v[2][1], cmp, L1.heap, oracle)
            ELSE [results |-> NoResults, printed |-> <<>>])

\* check_text with its components cmp in place
Rebuilt(text, L1, cmp, oracle) ==
    Validated(text, L1, cmp,
              validate_and_extract(text, cmp.min_text_length), oracle)

\* check_text after the _load() that opens it
Loaded(text, L1, oracle) ==
    Rebuilt(text, L1, _init_components(L1), oracle)

\* check_text without the rebuild of its components after the load
check_text_no_rebuild(text, L, oracle) ==
    Rebuilt(text, _load(L), comp, oracle)

\* check_text rebuilding every component but the validator
check_text_keeps_validator(text, L, oracle) ==
    Rebuilt(text, _load(L),
            [_init_components(_load(L))
                 EXCEPT !.min_text_length = comp.min_text_length],
            oracle)

\* check_text(text): the loader state and the components after it, and
\* what it returns and observes
check_text(text, L, oracle) == Loaded(text, _load(L), oracle)

---------------------------------------------------------------------------
(* The inputs of the model: rules, config file contents, feeds, messages.  *)

R1 == [wrong |-> <<"a", "b">>, correct |-> <<"A", "B">>,
       case_sensitive |-> FALSE]
R2 == [wrong |-> <<"c", "d">>, correct |-> <<"C", "D">>,
       case_sensitive |-> TRUE]

\* channel "a": the signature goes on a line of its own
ChanA == (<<"a">> :> [signature_format |-> LineBreakWords])

AllChecks(b) == [spelling |-> b, custom_rules |-> b, spaces |-> b,
                 channel_rules |-> b]

F1 == [checks |-> AllChecks(TRUE),
       ignore_words |-> <<>>,
       custom_rules |-> <<R1>>,
       channel_rules |-> <<>>,
       space_checks |-> [multiple_spaces |-> TRUE,
                         space_before_punctuation |-> TRUE,
                         no_space_after_punctuation |-> TRUE],
       response |-> [show_suggestions_count |-> 3, show_emoji |-> TRUE],
       settings |-> [min_text_length |-> 3]]

\* F1 with one more custom rule, and a channel rule
F2 == [F1 EXCEPT !.custom_rules = <<R1, R2>>, !.channel_rules = ChanA]

\* every check switched off, with rules configured for each
F3 == [checks |-> AllChecks(FALSE),
       ignore_words |-> << <<"C", "D">> >>,
       custom_rules |-> <<R1, R2>>,
       channel_rules |-> ChanA,
       space_checks |-> [multiple_spaces |-> TRUE,
                         space_before_punctuation |-> FALSE,
                         no_space_after_punctuation |-> TRUE],
       response |-> [show_suggestions_count |-> 1, show_emoji |-> FALSE],
       settings |-> [min_text_length |-> 2]]

\* a file that leaves keys out (as the fixture of src/tests/conftest.py)
F4 == [checks |-> [spelling |-> TRUE, custom_rules |-> TRUE,
                   spaces |-> FALSE],
       ignore_words |-> << <<"c", "d">> >>,
       custom_rules |-> <<R2>>,
       settings |-> [min_text_length |-> 12]]

FileContents == {F1, F2, F3, F4}

\* what a file that cannot be read or parsed holds
Garbage == [garbage |-> TRUE]

\* rows of the rules worksheet and of the channels worksheet
RowEF == << <<" ", "e", "f">>, <<"E", "F", " ">> >>
RowChanA == << <<"A", " ">>, <<"c", "h", "e", "r", "e", "z", " ">>
                                \o SpaceWord >>

CustomFeeds == {[fails |-> TRUE, rows |-> <<>>],
                [fails |-> FALSE, rows |-> <<>>],
                [fails |-> FALSE, rows |-> <<RowEF>>]}

ChannelFeeds == {[fails |-> TRUE, rows |-> <<>>],
                 [fails |-> FALSE, rows |-> <<RowChanA>>]}

EmptyFeeds == [custom |-> [fails |-> FALSE, rows |-> <<>>],
               channel |-> [fails |-> FALSE, rows |-> <<>>]]

MsgA ==
    <<"T", "G", "-", "k", "a", "n", "a", "l", " ", "A", " ", "(", "x", ")",
    ":", " ", "t", ".", "m", "e", "/", "x", "\n", "a", "b", " ", "c", "d",
    " ", "e", "f", " ", "@", "x">>

MsgB ==
    <<"T", "G", "-", "k", "a", "n", "a", "l", " ", "A", " ", "(", "x", ")",
    ":", " ", "t", ".", "m", "e", "/", "x", "\n", "A", "B", " ", " ", "c",
    "d", " ", ",", "e", "f", "\n", "@", "x">>

MsgC ==
    <<"t", ".", "m", "e", "/", "x", "\n", "o", "k">>

MsgD ==
    <<"h", "e", "l", "l", "o", "\n", "t", ".", "m", "e", "/", "x", " ",
    "a", "b", " ", "c", "d", " ", "e", "f">>

Messages == {MsgA, MsgB, MsgC, MsgD}

\* what can go wrong with the oracle's answer before any finding is built
Faults == {"network", "timeout", "status", "not_json", "not_objects",
           "word_not_string"}

\* answers of the spelling oracle: the failures, no misspelling, two
\* misspellings, an object without "word", and an object whose "s" is null
Oracles ==
    {[ok |-> FALSE, fault |-> f, errors |-> <<>>] : f \in Faults}
    \cup
    {[ok |-> TRUE, fault |-> "none", errors |-> <<>>],
     [ok |-> TRUE, fault |-> "none",
      errors |-> <<[word |-> <<"c", "d">>,
                    s |-> Some(<< <<"c", "e">>, <<"c", "f">> >>)],
                   [word |-> <<"e", "f">>, s |-> Some(<<>>)]>>],
     [ok |-> TRUE, fault |-> "none",
      errors |-> <<[s |-> Some(<< <<"x">> >>)]>>],
     [ok |-> TRUE, fault |-> "none",
      errors |-> <<[word |-> <<"a", "b">>, s |-> None]>>]}

---------------------------------------------------------------------------
(* The state machine.                                                      *)

Loader == [heap |-> heap, config |-> config,
           last_modified |-> last_modified, exc |-> FALSE]

NoAdded == [src |-> "none"]

NoOut == [text |-> <<>>, oracle |-> [none |-> TRUE], valid |-> FALSE,
          body |-> None,
          errors |-> NoResults, printed |-> <<>>,
          used |-> [none |-> TRUE], report |-> "", result |-> FALSE,
          gate |-> FALSE, replied |-> FALSE]

\* what was in force when an operation began
Before == [cfg |-> heap[config], id |-> config,
           last_modified |-> last_modified, added |-> added,
           min_text_length |-> comp.min_text_length]

NoBefore == [cfg |-> <<>>, id |-> 0, last_modified |-> 0, added |-> NoAdded,
             min_text_length |-> 0]

\* Object ids carry no meaning, so after every operation the objects are
\* renumbered: the loader's dict is object 1, a dict only the checkers
\* still hold is object 2, and what nothing refers to is collected (0).
Renumber(L, cmp, i) ==
    IF i = L.config THEN 1 ELSE IF i = cmp.cfg THEN 2 ELSE 0

\* the loader's and the checker's fields after an operation
Commit(L, cmp) ==
    /\ heap' = [j \in HeapIds |->
                   IF j = 1
                   THEN L.heap[L.config]
                   ELSE IF j = 2 /\ cmp.cfg # L.config
                        THEN L.heap[cmp.cfg]
                        ELSE Free]
    /\ config' = 1
    /\ last_modified' = L.last_modified
    /\ comp' = [cmp EXCEPT !.cfg = Renumber(L, cmp, cmp.cfg)]
    /\ raised' = L.exc
    /\ pre' = [Before EXCEPT !.id = Renumber(L, cmp, config)]

\* ConfigLoader.__init__ followed by TextChecker.__init__
Built(L) == [L |-> L, comp |-> _init_components(L)]

Construct ==
    Built(_load(Rebind([heap |-> [i \in HeapIds |-> Free], config |-> 0,
                        last_modified |-> 0, exc |-> FALSE], <<>>)))

\* the state after construction, for a file, a loader and feeds as given
Constructed ==
    \E c \in {Construct} :
        /\ heap = [j \in HeapIds |->
                      IF j = 1 THEN c.L.heap[c.L.config] ELSE Free]
        /\ config = 1
        /\ last_modified = c.L.last_modified
        /\ comp = [c.comp EXCEPT !.cfg = 1]
        /\ raised = c.L.exc
    /\ added = NoAdded
    /\ op = "init"
    /\ out = NoOut
    /\ pre = NoBefore

Init ==
    /\ clock = 1
    /\ file \in {[status |-> "ok", mtime |-> 1, content |-> c] :
                     c \in FileContents}
                \cup {[status |-> "corrupt", mtime |-> 1, content |-> Garbage],
                      [status |-> "missing", mtime |-> 0, content |-> Garbage]}
    /\ sheets \in {"none", "unavailable", "available"}
    /\ feed \in IF sheets = "available"
                THEN [custom : CustomFeeds, channel : ChannelFeeds]
                ELSE {EmptyFeeds}
    /\ Constructed

Program == <<heap, config, last_modified, comp, raised>>
World == <<file, clock, sheets, feed>>

\* new holds the rules of old and one more
OneMore(old, new) ==
    Len(new) = Len(old) + 1 /\ SubSeq(new, 1, Len(old)) = old

\* the config file is rewritten
WriteFile(c) ==
    /\ clock < MaxTime
    /\ file.status # "ok" \/ file.content # c
    /\ clock' = clock + 1
    /\ file' = [status |-> "ok", mtime |-> clock + 1, content |-> c]
    /\ added' = IF /\ file.status = "ok"
                   /\ OneMore(Get(file.content, "custom_rules", <<>>),
                              Get(c, "custom_rules", <<>>))
                THEN [src |-> "file",
                      rule |-> c.custom_rules[Len(c.custom_rules)]]
                ELSE NoAdded
    /\ op' = "world"
    /\ out' = NoOut
    /\ pre' = NoBefore
    /\ UNCHANGED <<sheets, feed, Program>>

\* the config file is overwritten with something that does not parse
CorruptFile ==
    /\ clock < MaxTime
    /\ clock' = clock + 1
    /\ file' = [status |-> "corrupt", mtime |-> clock + 1,
                content |-> Garbage]
    /\ added' = NoAdded
    /\ op' = "world"
    /\ out' = NoOut
    /\ pre' = NoBefore
    /\ UNCHANGED <<sheets, feed, Program>>

\* the config file is moved away
RemoveFile ==
    /\ file.status = "ok"
    /\ file' = [file EXCEPT !.status = "missing"]
    /\ added' = NoAdded
    /\ op' = "world"
    /\ out' = NoOut
    /\ pre' = NoBefore
    /\ UNCHANGED <<clock, sheets, feed, Program>>

\* and moved back, with the modification time it had
RestoreFile ==
    /\ file.status = "missing"
    /\ file.mtime > 0
    /\ file' = [file EXCEPT !.status = "ok"]
    /\ added' = NoAdded
    /\ op' = "world"
    /\ out' = NoOut
    /\ pre' = NoBefore
    /\ UNCHANGED <<clock, sheets, feed, Program>>

\* the spreadsheet is edited, or starts or stops failing
SetFeed(which, f) ==
    /\ sheets = "available"
    /\ feed[which] # f
    /\ feed' = [feed EXCEPT ![which] = f]
    /\ added' = IF /\ which = "custom"
                   /\ ~feed.custom.fails
                   /\ ~f.fails
                   /\ OneMore(load_custom_rules(feed.custom),
                              load_custom_rules(f))
                THEN [src |-> "feed",
                      rule |-> load_custom_rules(f)[Len(load_custom_rules(f))]]
                ELSE NoAdded
    /\ op' = "world"
    /\ out' = NoOut
    /\ pre' = NoBefore
    /\ UNCHANGED <<file, clock, sheets, Program>>

\* SpellCheckBot.handle_reload_button: reload(), then _init_components()
HandleReloadButton ==
    \E r \in {reload(Loader)} :
        /\ Commit(r.L, _init_components(r.L))
        /\ op' = "reload"
        /\ out' = [NoOut EXCEPT !.result = r.result]
        /\ UNCHANGED <<World, added>>

\* TextChecker.reload_config
ReloadConfig ==
    \E r \in {reload(Loader)} :
        /\ Commit(r.L, IF r.result THEN _init_components(r.L) ELSE comp)
        /\ op' = "reload_config"
        /\ out' = [NoOut EXCEPT !.result = r.result]
        /\ UNCHANGED <<World, added>>

\* TextChecker.check_text(text), the oracle answering as given
CheckText(text, oracle) ==
    \E r \in {check_text(text, Loader, oracle)} :
        /\ Commit(r.L, r.comp)
        /\ op' = "check_text"
        /\ out' = [NoOut EXCEPT !.text = text, !.oracle = oracle,
                                !.valid = r.valid,
                                !.errors = r.errors, !.printed = r.printed,
                                !.used = r.used, !.report = r.report]
        /\ added' = NoAdded
        /\ UNCHANGED World

\* handle_message after validate_message let the text through:
\* check_text(text), and a reply when it returned a report
Answered(text, oracle, r) ==
    /\ Commit(r.L, r.comp)
    /\ out' = [NoOut EXCEPT !.text = text, !.oracle = oracle,
                            !.valid = r.valid,
                            !.errors = r.errors, !.printed = r.printed,
                            !.used = r.used, !.report = r.report,
                            !.gate = TRUE,
                            !.replied = ~r.L.exc /\ r.report # ""]
    /\ added' = NoAdded

\* handle_message returning at once: validate_message refused the text
Refused(text, oracle) ==
    /\ out' = [NoOut EXCEPT !.text = text, !.oracle = oracle]
    /\ pre' = Before
    /\ UNCHANGED <<Program, added>>

\* SpellCheckBot.handle_message for a text that is not a menu button
HandleMessage(text, oracle) ==
    /\ IF validate_message(text, comp)
       THEN Answered(text, oracle, check_text(text, Loader, oracle))
       ELSE Refused(text, oracle)
    /\ op' = "handle_message"
    /\ UNCHANGED World

\* the messages and the oracle answers the loader's runs are followed with
SpecMessages == {MsgA, MsgC}
SpecOracles ==
    {o \in Oracles :
        \/ o.fault = "timeout"
        \/ \E n \in 1..Len(o.errors) :
               Get(o.errors[n], "word", <<>>) = <<"c", "d">>}

Next ==
    \/ \E c \in FileContents : WriteFile(c)
    \/ CorruptFile
    \/ RemoveFile
    \/ RestoreFile
    \/ \E f \in CustomFeeds : SetFeed("custom", f)
    \/ \E f \in ChannelFeeds : SetFeed("channel", f)
    \/ HandleReloadButton
    \/ ReloadConfig
    \/ \E m \in SpecMessages, o \in SpecOracles : CheckText(m, o)

Spec == Init /\ [][Next]_vars

---------------------------------------------------------------------------
(* The bot's message handler: the rule sources change, and every inbound   *)
(* message goes through handle_message (the reload button included).       *)

NextHandle ==
    \/ \E c \in FileContents : WriteFile(c)
    \/ CorruptFile
    \/ RemoveFile
    \/ RestoreFile
    \/ \E f \in CustomFeeds : SetFeed("custom", f)
    \/ \E f \in ChannelFeeds : SetFeed("channel", f)
    \/ HandleReloadButton
    \/ \E m \in SpecMessages, o \in SpecOracles : HandleMessage(m, o)

SpecHandle == Init /\ [][NextHandle]_vars

---------------------------------------------------------------------------
(* MessageValidator on its own: validate_and_extract applied to every      *)
(* text of up to MaxTokens tokens, for every minimum length up to          *)
(* MaxMinLen.                                                              *)

Tokens == {LinkPrefix, <<"x">>, <<" ">>, <<"\n">>}

Texts == UNION {{Chars(q) : q \in [1..n -> Tokens]} : n \in 0..MaxTokens}

InitValidate ==
    /\ out \in [text : Texts, min_text_length : 0..MaxMinLen,
                done : {FALSE}, valid : {FALSE}, body : {None}]
    /\ file = [status |-> "missing", mtime |-> 0, content |-> Garbage]
    /\ clock = 1
    /\ sheets = "none"
    /\ feed = EmptyFeeds
    /\ heap = [j \in HeapIds |-> IF j = 1 THEN DefaultConfig ELSE Free]
    /\ config = 1
    /\ last_modified = 0
    /\ comp = Components(1, DefaultConfig)
    /\ raised = FALSE
    /\ added = NoAdded
    /\ op = "init"
    /\ pre = NoBefore

\* MessageValidator(min_text_length).validate_and_extract(text)
ValidateAndExtract ==
    /\ ~out.done
    /\ \E v \in {validate_and_extract(out.text, out.min_text_length)} :
           out' = [out EXCEPT !.done = TRUE, !.valid = v[1], !.body = v[2]]
    /\ op' = "validate_and_extract"
    /\ UNCHANGED <<World, Program, added, pre>>

NextValidate == ValidateAndExtract

SpecValidate == InitValidate /\ [][NextValidate]_vars

---------------------------------------------------------------------------
(* TextChecker on its own: check_text on every message, with every oracle  *)
(* answer, under config files with every combination of the four toggles.  *)

Toggles ==
    [{"spelling", "custom_rules", "spaces", "channel_rules"} -> BOOLEAN]

CheckConfigs == FileContents \cup {[F2 EXCEPT !.checks = t] : t \in Toggles}

InitCheck ==
    /\ clock = 1
    /\ file \in {[status |-> "ok", mtime |-> 1, content |-> c] :
                     c \in CheckConfigs}
    /\ sheets = "none"
    /\ feed = EmptyFeeds
    /\ Constructed

NextCheck == \E m \in Messages, o \in Oracles : CheckText(m, o)

SpecCheck == InitCheck /\ [][NextCheck]_vars

---------------------------------------------------------------------------
(* The checkers on their own: each is built from a generated              *)
(* configuration and its check is applied to a generated input.  out      *)
(* holds the checker, what it was built from, its input and, once it has  *)
(* run (done), its findings.                                              *)

\* the loader and the text checker are not part of these runs
Idle ==
    /\ file = [status |-> "missing", mtime |-> 0, content |-> Garbage]
    /\ clock = 1
    /\ sheets = "none"
    /\ feed = EmptyFeeds
    /\ heap = [j \in HeapIds |-> IF j = 1 THEN DefaultConfig ELSE Free]
    /\ config = 1
    /\ last_modified = 0
    /\ comp = Components(1, DefaultConfig)
    /\ raised = FALSE
    /\ added = NoAdded
    /\ op = "init"
    /\ pre = NoBefore

\* the sequences of up to n members of S
SeqsUpTo(S, n) == UNION {[1..k -> S] : k \in 0..n}

\* misspellings an oracle answer is made of, and ignore_words lists
Misspellings ==
    [word : {<<"c", "d">>, <<"C", "D">>, <<"e", "f">>},
     s : {Some(<<>>), Some(<< <<"c", "e">>, <<"c", "f">> >>)}]

IgnoreLists ==
    {<<>>, << <<"c", "d">> >>, << <<"C", "D">> >>,
     << <<"E", "f">>, <<"c", "D">> >>}

SpellingInputs ==
    [checker : {"spelling"},
     ignore_words : IgnoreLists,
     oracle : [ok : {TRUE}, fault : {"none"},
               errors : SeqsUpTo(Misspellings, MaxErrors)],
     done : {FALSE},
     findings : {<<>>}]

\* custom rules: "a." taken literally, one that overlaps itself and R1,
\* one without a replacement
RuleDot == [wrong |-> <<"a", ".">>, correct |-> <<"a">>,
            case_sensitive |-> FALSE]
RuleABA == [wrong |-> <<"a", "b", "a">>, correct |-> <<"A", "B", "A">>,
            case_sensitive |-> FALSE]
RuleNoCorrect == [wrong |-> <<"a", "b">>, correct |-> <<>>,
                  case_sensitive |-> FALSE]

RuleLists ==
    {<<>>, <<R1>>, <<R2>>, <<RuleDot>>, <<RuleABA>>, <<R1, R2>>, <<R2, R1>>,
     <<R1, RuleABA>>, <<RuleABA, R1>>, <<RuleNoCorrect, R2>>}

Words == {<<"a", "b">>, <<"A", "B">>, <<"c", "d">>, <<"C", "d">>,
          <<"a", ".">>, <<" ">>}

Bodies == {Chars(q) : q \in SeqsUpTo(Words, MaxWords)}

CustomInputs ==
    [checker : {"custom"},
     custom_rules : RuleLists,
     text : Bodies,
     done : {FALSE},
     findings : {<<>>}]

\* space_checks: one sub-check alone, and nothing said (all three)
SubChecks(multiple, before, after) ==
    [multiple_spaces |-> multiple, space_before_punctuation |-> before,
     no_space_after_punctuation |-> after]

SpaceChecks ==
    {SubChecks(TRUE, FALSE, FALSE), SubChecks(FALSE, FALSE, TRUE), <<>>}

Pieces == {<<"x">>, <<",">>, <<" ">>, <<" ", " ">>}

\* bodies made of the pieces, and some with a digit or a line break
SpacedBodies ==
    {Chars(q) : q \in SeqsUpTo(Pieces, MaxPieces)}
    \cup {<<"x", ",", "1">>, <<"1", ",", "x">>, <<"x", "\n", " ", " ", "x">>,
          <<"x", " ", " ", "\n", "x">>, <<"x", "\n", ",", "x">>}

SpaceInputs ==
    [checker : {"spaces"},
     space_checks : SpaceChecks,
     text : SpacedBodies,
     done : {FALSE},
     findings : {<<>>}]

\* channel rules for the channel "a": the signature on a line of its own
\* (ChanA), after a space, and a literal tail as load_channel_rules makes
\* it of "NEWLINE@x"
SignatureRule(signature_format) ==
    (<<"a">> :> [signature_format |-> signature_format])

ChannelRuleSets ==
    {SignatureRule(LineBreakWords),
     SignatureRule(<<"c", "h", "e", "r", "e", "z", " ">> \o SpaceWord),
     SignatureRule(Replace(NewlineToken \o <<"@", "x">>, NewlineToken,
                           <<"\n">>))}

\* first lines: the name before a parenthesis, before a colon, a handle
\* in the parentheses, the label in other letter case, another channel
FirstLines ==
    {ChannelLabel \o <<" ", "A", " ", "(", "x", ")", ":", " ">>
         \o LinkPrefix \o <<"x">>,
     ChannelLabel \o <<" ", "A", ":", " ">> \o LinkPrefix \o <<"x">>,
     ChannelLabel \o <<" ", "A", " ", "(", "@", "x", ")", ":", " ">>
         \o LinkPrefix \o <<"x">>,
     lower(ChannelLabel) \o <<" ", " ", "a", "(", "x", ")">>,
     ChannelLabel \o <<" ", "B", " ", "(", "x", ")", ":", " ">>
         \o LinkPrefix \o <<"x">>}

Parts == {<<"a", "b">>, <<" ">>, <<"\n">>, <<"@", "x">>}

\* a first line alone, or a first line, a line break and a body
ChannelTexts ==
    FirstLines
    \cup {l \o <<"\n">> \o Chars(q) :
              l \in FirstLines, q \in SeqsUpTo(Parts, MaxParts)}

ChannelInputs ==
    [checker : {"channel"},
     channel_rules : ChannelRuleSets,
     text : ChannelTexts,
     done : {FALSE},
     findings : {<<>>}]

InitCheckers ==
    /\ \/ out \in SpellingInputs
       \/ out \in CustomInputs
       \/ out \in SpaceInputs
       \/ out \in ChannelInputs
    /\ Idle

\* the run of a checker that found findings
Ends(checker, findings) ==
    /\ out.checker = checker
    /\ ~out.done
    /\ out' = [out EXCEPT !.done = TRUE, !.findings = findings]
    /\ op' = checker
    /\ UNCHANGED <<World, Program, added, pre>>

\* SpellingChecker(config).check(text), the oracle answering out.oracle
SpellingCheck ==
    /\ out.checker = "spelling"
    /\ Ends("spelling",
            SpellingChecker_check(
                out.oracle,
                SpellingChecker_ignore_words(
                    [ignore_words |-> out.ignore_words])))

\* CustomRulesChecker(config).check(text)
CustomCheck ==
    /\ out.checker = "custom"
    /\ Ends("custom",
            CustomRulesChecker_check(
                out.text,
                Get([custom_rules |-> out.custom_rules], "custom_rules",
                    <<>>)))

\* SpaceChecker(config).check(text)
SpaceCheck ==
    /\ out.checker = "spaces"
    /\ Ends("spaces",
            SpaceChecker_check(
                out.text,
                Get([space_checks |-> out.space_checks], "space_checks",
                    <<>>)))

\* ChannelRulesChecker(config, channel_rules).check(text)
ChannelCheck ==
    /\ out.checker = "channel"
    /\ Ends("channel",
            ChannelRulesChecker_check(out.text, out.channel_rules))

NextCheckers ==
    \/ SpellingCheck
    \/ CustomCheck
    \/ SpaceCheck
    \/ ChannelCheck

SpecCheckers == InitCheckers /\ [][NextCheckers]_vars

---------------------------------------------------------------------------
(* ErrorFormatter on its own: format applied to findings maps in which     *)
(* any category may be absent, empty or hold one or two findings, for      *)
(* both values of show_emoji and two of show_suggestions_count.  The       *)
(* findings are findings the checkers produce.                             *)

CustomFound ==
    {<<>>,
     CustomRulesChecker_check(<<"c", "d">>, <<R2>>),
     CustomRulesChecker_check(<<"c", "d", " ", "a", "b">>, <<R1, R2>>)}

SpellingFoundLists ==
    {<<>>,
     <<SpellingFound(<<"e", "f">>, Some(<<>>))>>,
     <<SpellingFound(<<"c", "d">>, Some(<< <<"c", "e">>, <<"c", "f">> >>)),
       SpellingFound(<<"e", "f">>, Some(<<>>))>>}

SpacesFound ==
    {<<>>,
     SpaceChecker_check(<<"x", " ", " ", "y">>, <<>>),
     SpaceChecker_check(<<"x", " ", " ", "y", ",", "z">>, <<>>)}

ChannelFound ==
    {<<>>,
     _check_signature_format(<<"a", "b">>, <<"\n", "@", "x">>, <<"A">>),
     _check_signature_format(<<"a", "b", " ", "@", "x">>, LineBreakWords,
                             <<"A">>)}

Categories == {"custom", "spelling", "spaces", "channel"}

\* findings maps: every category present, then some of them left out
FullMaps ==
    [custom : CustomFound, spelling : SpellingFoundLists,
     spaces : SpacesFound, channel : ChannelFound]

FindingsMaps ==
    {[k \in K |-> m[k]] : m \in FullMaps, K \in SUBSET Categories}

FormatInputs ==
    [checker : {"format"},
     errors : FindingsMaps,
     show_emoji : BOOLEAN,
     max_suggestions : 1..MaxShown,
     done : {FALSE},
     report : {""}]

InitFormat ==
    /\ out \in FormatInputs
    /\ Idle

\* ErrorFormatter(response).format(errors)
FormatReport ==
    /\ out.checker = "format"
    /\ ~out.done
    /\ out' = [out EXCEPT
                   !.done = TRUE,
                   !.report = format(out.errors,
                                     Get([show_emoji |-> out.show_emoji],
                                         "show_emoji", TRUE),
                                     Get([show_suggestions_count |->
                                              out.max_suggestions],
                                         "show_suggestions_count",
                                         DefaultSuggestionsCount))]
    /\ op' = "format"
    /\ UNCHANGED <<World, Program, added, pre>>

NextFormat == FormatReport

SpecFormat == InitFormat /\ [][NextFormat]_vars

---------------------------------------------------------------------------
(* A checker called twice: each checker object is constructed once from a  *)
(* generated configuration and its check is then called two times with     *)
(* the same text.  out.self holds the attributes the constructor assigned, *)
(* out.first and out.second the findings of the two calls, out.answers     *)
(* the oracle's answers to the spelling checker's two requests.            *)

\* the attributes __init__ assigns (besides self.config)
Attributes(i) ==
    CASE i.checker = "spelling" ->
             [ignore_words |->
                  SpellingChecker_ignore_words(
                      [ignore_words |-> i.ignore_words])]
      [] i.checker = "custom" ->
             [custom_rules |->
                  Get([custom_rules |-> i.custom_rules], "custom_rules",
                      <<>>)]
      [] i.checker = "spaces" ->
             [space_checks |->
                  Get([space_checks |-> i.space_checks], "space_checks",
                      <<>>)]
      [] i.checker = "channel" -> [channel_rules |-> i.channel_rules]

CheckerObject(i) ==
    [checker |-> i.checker,
     self |-> Attributes(i),
     text |-> Get(i, "text", <<>>),
     runs |-> 0,
     answers |-> IF i.checker = "spelling" THEN <<i.oracle>> ELSE <<>>,
     first |-> <<>>,
     second |-> <<>>]

InitTwice ==
    /\ out \in {CheckerObject(i) :
                    i \in SpellingInputs \cup CustomInputs
                              \cup SpaceInputs \cup ChannelInputs}
    /\ Idle

\* the attributes a call of check leaves consumed
AttributesAfterCheck_consumed(self) == [k \in DOMAIN self |-> <<>>]

\* what a call of check leaves of the attributes: no check method assigns
\* to self or changes a list or a dict it holds
AttributesAfterCheck(self) == self

\* one call of check that returned findings, the oracle's answers so far
\* being answers
Called(checker, findings, answers) ==
    /\ out.checker = checker
    /\ out.runs < 2
    /\ out' = [out EXCEPT
                   !.runs = out.runs + 1,
                   !.self = AttributesAfterCheck(out.self),
                   !.answers = answers,
                   !.first = IF out.runs = 0 THEN findings ELSE out.first,
                   !.second = IF out.runs = 1 THEN findings ELSE out.second]
    /\ op' = checker
    /\ UNCHANGED <<World, Program, added, pre>>

\* what the oracle may answer to the second request: what it answered to
\* the first, no misspelling, or nothing in time
SecondAnswers ==
    IF out.checker = "spelling"
    THEN {out.answers[1],
          [ok |-> TRUE, fault |-> "none", errors |-> <<>>],
          [ok |-> FALSE, fault |-> "timeout", errors |-> <<>>]}
    ELSE {}

\* SpellingChecker.check, first call
SpellingCalled ==
    /\ out.checker = "spelling"
    /\ out.runs = 0
    /\ Called("spelling",
              SpellingChecker_check(out.answers[1], out.self.ignore_words),
              out.answers)

\* SpellingChecker.check, second call, the oracle answering answer
SpellingCalledAgain(answer) ==
    /\ out.checker = "spelling"
    /\ out.runs = 1
    /\ Len(out.answers) = 1
    /\ Called("spelling",
              SpellingChecker_check(answer, out.self.ignore_words),
              Append(out.answers, answer))

\* CustomRulesChecker.check
CustomCalled ==
    /\ out.checker = "custom"
    /\ Called("custom",
              CustomRulesChecker_check(out.text, out.self.custom_rules),
              out.answers)

\* SpaceChecker.check
SpaceCalled ==
    /\ out.checker = "spaces"
    /\ Called("spaces", SpaceChecker_check(out.text, out.self.space_checks),
              out.answers)

\* ChannelRulesChecker.check
ChannelCalled ==
    /\ out.checker = "channel"
    /\ Called("channel",
              ChannelRulesChecker_check(out.text, out.self.channel_rules),
              out.answers)

NextTwice ==
    \/ SpellingCalled
    \/ \E answer \in SecondAnswers : SpellingCalledAgain(answer)
    \/ CustomCalled
    \/ SpaceCalled
    \/ ChannelCalled

SpecTwice == InitTwice /\ [][NextTwice]_vars

---------------------------------------------------------------------------
(* Reload semantics.                                                       *)

InSeq(x, q) == \E i \in 1..Len(q) : q[i] = x

\* every element of q is an element of r
AllIn(q, r) == \A i \in 1..Len(q) : InSeq(q[i], r)

\* the body the last check_text extracted from its text
BodyChecked == validate_and_extract(out.text, comp.min_text_length)[2][1]

\* The last check_text applied the custom rule: its checker holds the
\* rule, and when the custom checker ran on a body, every place of the
\* body the rule matches is among the findings.
Applied(rule) ==
    /\ InSeq(rule, comp.custom_rules)
    /\ (out.valid /\ out.used.custom_enabled) =>
           AllIn(CustomRuleMatches(BodyChecked, rule), out.errors.custom)

\* the spreadsheet supplies no custom rules (no loader, one that is not
\* available, a failing or an empty first sheet)
NoFeedCustomRules == load_custom_rules(feed.custom) = <<>>

\* C1 as stated: after the config file or the spreadsheet feed is updated
\* to contain one more custom rule, the next check_text applies that rule,
\* with no reload call needed in between.
C1_NextCheckAppliesAddedRule ==
    (op = "check_text" /\ pre.added.src # "none") => Applied(pre.added.rule)

\* C1 amended: after the config file is rewritten, with a later
\* modification time, to contain one more custom rule, the next check_text
\* applies that rule, provided the spreadsheet supplies no custom rules.
C1_NextCheckAppliesRuleAddedToFile ==
    (op = "check_text" /\ pre.added.src = "file" /\ NoFeedCustomRules)
        => Applied(pre.added.rule)

\* a check right after the file got one more rule, which finds that rule's
\* wrong form in the body
C1_Witness ==
    /\ op = "check_text"
    /\ pre.added.src = "file"
    /\ NoFeedCustomRules
    /\ out.valid
    /\ out.used.custom_enabled
    /\ CustomRuleMatches(BodyChecked, pre.added.rule) # <<>>
    /\ Applied(pre.added.rule)

\* the rule values of the configuration snapshot S
SnapshotView(S) ==
    [min_text_length |-> Get(Get(S, "settings", <<>>), "min_text_length", 50),
     custom_enabled |-> Get(Get(S, "checks", <<>>), "custom_rules", TRUE),
     custom_rules |-> Get(S, "custom_rules", <<>>),
     spelling_enabled |-> Get(Get(S, "checks", <<>>), "spelling", TRUE),
     ignore_words |-> [i \in 1..Len(Get(S, "ignore_words", <<>>)) |->
                          lower(S.ignore_words[i])],
     spaces_enabled |-> Get(Get(S, "checks", <<>>), "spaces", TRUE),
     space_checks |-> Get(S, "space_checks", <<>>),
     channel_rules |-> Get(S, "channel_rules", <<>>),
     show_emoji |-> Get(Get(S, "response", <<>>), "show_emoji", TRUE),
     max_suggestions |-> Get(Get(S, "response", <<>>),
                             "show_suggestions_count", 3)]

\* every value the last check read is the value snapshot S holds
ReadFrom(S) ==
    \A k \in DOMAIN out.used : out.used[k] = SnapshotView(S)[k]

\* C2: all rule values one check reads come from one configuration
\* snapshot, the one before the reload or the one after it, never a mix.
C2_CheckReadsOneSnapshot ==
    op = "check_text" => (ReadFrom(pre.cfg) \/ ReadFrom(heap[config]))

\* a check during which the configuration was reloaded to other values,
\* on a reviewable message
C2_Witness ==
    /\ op = "check_text"
    /\ out.valid
    /\ last_modified # pre.last_modified
    /\ SnapshotView(pre.cfg) # SnapshotView(heap[config])
    /\ SnapshotView(pre.cfg).min_text_length
           # SnapshotView(heap[config]).min_text_length
    /\ ReadFrom(heap[config])

\* an operation that reloads: reload() itself, or the _load() of a check
Reloading == op \in {"reload", "reload_config", "check_text"}

\* C3: after reload or _load, the configuration object that was current
\* before still holds exactly the values it held before.
C3_ReloadLeavesOldObjectAlone ==
    (Reloading /\ pre.id # 0) => heap[pre.id] = pre.cfg

\* the spreadsheet was consulted by the last operation and failed:
\* it is unavailable, or fetching one of its feeds raises
SourceFailedInReload ==
    /\ \/ op \in {"reload", "reload_config"}
       \/ op = "check_text" /\ last_modified # pre.last_modified
    /\ \/ sheets = "unavailable"
       \/ sheets = "available" /\ (feed.custom.fails \/ feed.channel.fails)

\* C4: when the external source fails during a reload, the custom rules
\* and the channel rules in effect afterwards are those in effect before,
\* and nothing is raised.
C4_FailedSourceKeepsRules ==
    SourceFailedInReload =>
        /\ ~raised
        /\ Get(heap[config], "custom_rules", <<>>)
               = Get(pre.cfg, "custom_rules", <<>>)
        /\ Get(heap[config], "channel_rules", <<>>)
               = Get(pre.cfg, "channel_rules", <<>>)

\* the last operation loaded the config file: the constructor, check_text,
\* or reload() of a loader without a spreadsheet
FileLoadAttempted ==
    \/ op \in {"init", "check_text"}
    \/ op \in {"reload", "reload_config"} /\ sheets = "none"

\* C5: a load that finds the config file missing or unparsable raises
\* nothing, and the current configuration becomes the built-in defaults.
C5_BadFileGivesDefaults ==
    (FileLoadAttempted /\ file.status \in {"missing", "corrupt"}) =>
        /\ ~raised
        /\ heap[config] =
               [checks |-> [spelling |-> TRUE, custom_rules |-> TRUE,
                            spaces |-> TRUE, channel_rules |-> TRUE],
                ignore_words |-> <<>>,
                custom_rules |-> <<>>,
                channel_rules |-> <<>>,
                space_checks |-> [multiple_spaces |-> TRUE,
                                  space_before_punctuation |-> TRUE,
                                  no_space_after_punctuation |-> TRUE],
                response |-> [show_suggestions_count |-> 3,
                              show_emoji |-> TRUE],
                settings |-> [min_text_length |-> 50]]

\* a check that found the file unparsable after another configuration had
\* been loaded
C5_Witness ==
    /\ op = "check_text"
    /\ file.status = "corrupt"
    /\ pre.cfg # DefaultConfig
    /\ heap[config] = DefaultConfig
    /\ comp.min_text_length = 50

---------------------------------------------------------------------------
(* The report and the validator.                                           *)

\* the text of the last check_text is reviewable
LastReviewable == validate_and_extract(out.text, comp.min_text_length)[1]

NoFindings ==
    /\ out.errors.custom = <<>>
    /\ out.errors.spelling = <<>>
    /\ out.errors.spaces = <<>>
    /\ out.errors.channel = <<>>

WhiteSpace == {" ", "\n", "\t", "\r"}

\* the part of the text before its first line break
FirstLineOf(text) ==
    IF \E k \in 1..Len(text) : text[k] = "\n"
    THEN SubSeq(text, 1,
                (CHOOSE k \in 1..Len(text) :
                     text[k] = "\n" /\ \A j \in 1..(k - 1) : text[j] # "\n")
                    - 1)
    ELSE text

\* the part after it (only asked of a text that has a line break)
AfterFirstBreak(text) ==
    SubSeq(text, Len(FirstLineOf(text)) + 2, Len(text))

\* "t.me/" followed by a character that is not white space
HasMarker(line) ==
    \E i \in 1..Len(line) :
        /\ i + 5 <= Len(line)
        /\ SubSeq(line, i, i + 4) = <<"t", ".", "m", "e", "/">>
        /\ line[i + 5] \notin WhiteSpace

\* the length of s without its leading and trailing white space
TrimmedLen(s) ==
    IF \A k \in 1..Len(s) : s[k] \in WhiteSpace
    THEN 0
    ELSE (CHOOSE b \in 1..Len(s) :
              s[b] \notin WhiteSpace
                  /\ \A j \in (b + 1)..Len(s) : s[j] \in WhiteSpace)
         - (CHOOSE a \in 1..Len(s) :
                s[a] \notin WhiteSpace
                    /\ \A j \in 1..(a - 1) : s[j] \in WhiteSpace)
         + 1

\* C7: a text whose first line holds no "t.me/" followed by a non-space
\* character is not reviewable and has no body, whatever its later lines.
C7_NoMarkerNotReviewable ==
    (out.done /\ ~HasMarker(FirstLineOf(out.text))) =>
        (~out.valid /\ out.body = None)

\* the link only on a later line
C7_Witness ==
    /\ out.done
    /\ ~HasMarker(FirstLineOf(out.text))
    /\ HasMarker(out.text)
    /\ TrimmedLen(AfterFirstBreak(out.text)) >= out.min_text_length
    /\ ~out.valid

\* C8: the trimmed body of a reviewable text is at least the minimum
\* length long, and a text with a link in its first line and a shorter
\* trimmed body is not reviewable.
C8_ReviewableBodyLongEnough ==
    out.done =>
        /\ out.valid =>
               TrimmedLen(AfterFirstBreak(out.text)) >= out.min_text_length
        /\ (/\ HasMarker(FirstLineOf(out.text))
            /\ FirstLineOf(out.text) # out.text
            /\ TrimmedLen(AfterFirstBreak(out.text)) < out.min_text_length)
               => ~out.valid

\* a link in the first line and a body that is long enough only with the
\* white space around it
C8_Witness ==
    /\ out.done
    /\ HasMarker(FirstLineOf(out.text))
    /\ FirstLineOf(out.text) # out.text
    /\ Len(AfterFirstBreak(out.text)) >= out.min_text_length
    /\ TrimmedLen(AfterFirstBreak(out.text)) < out.min_text_length
    /\ ~out.valid

\* C9: the body of a qualified text is everything after its first line
\* break, and a qualified text without a line break is not reviewable.
C9_BodyIsRestAfterFirstBreak ==
    (out.done /\ HasMarker(FirstLineOf(out.text))) =>
        /\ out.valid => out.body = Some(AfterFirstBreak(out.text))
        /\ FirstLineOf(out.text) = out.text => ~out.valid

\* a body that keeps a later line break and the white space around it
C9_Witness ==
    /\ out.done
    /\ out.valid
    /\ out.body = Some(AfterFirstBreak(out.text))
    /\ \E k \in 1..Len(out.body[1]) : out.body[1][k] = "\n"
    /\ TrimmedLen(out.body[1]) < Len(out.body[1])

\* the link in the only line
C9_WitnessOneLine ==
    /\ out.done
    /\ HasMarker(out.text)
    /\ FirstLineOf(out.text) = out.text
    /\ ~out.valid

\* the toggle of a category in the configuration the last check used
Toggle(key) == Get(Get(heap[comp.cfg], "checks", <<>>), key, TRUE)

\* the checker was not invoked, and its category holds the empty list
NotRun(name) ==
    /\ \A i \in 1..Len(out.printed) : out.printed[i] # name
    /\ name \in DOMAIN out.errors
    /\ out.errors[name] = <<>>

\* C10: a checker is invoked only if its own toggle is enabled; the
\* category of a disabled one is in the result map and holds the empty
\* list, whatever rules are configured for it.
C10_DisabledCheckerNotRun ==
    (op = "check_text" /\ out.valid) =>
        /\ ~Toggle("custom_rules") => NotRun("custom")
        /\ ~Toggle("spelling") => NotRun("spelling")
        /\ ~Toggle("spaces") => NotRun("spaces")
        /\ ~Toggle("channel_rules") => NotRun("channel")

---------------------------------------------------------------------------
(* The spelling oracle.                                                    *)

\* the checker was invoked by the last check_text
Ran(name) == \E i \in 1..Len(out.printed) : out.printed[i] = name

\* The oracle's answer to the last check_text is a failure: the call or
\* the decoding did not succeed, or what came is not a list of objects
\* that each hold a word and a list of suggestions.
OracleFailed ==
    \/ ~out.oracle.ok
    \/ \E n \in 1..Len(out.oracle.errors) :
           \/ "word" \notin DOMAIN out.oracle.errors[n]
           \/ "s" \notin DOMAIN out.oracle.errors[n]
           \/ out.oracle.errors[n].s = None

\* the findings a checker that ran must have stored
FoundBy(name, findings) ==
    out.errors[name] = IF Ran(name) THEN findings ELSE <<>>

\* the last check_text ended without an exception, with no spelling
\* finding, and its report is the one of the other checkers' findings
DegradedSilently ==
    /\ ~raised
    /\ out.errors.spelling = <<>>
    /\ FoundBy("custom",
               CustomRulesChecker_check(BodyChecked, comp.custom_rules))
    /\ FoundBy("spaces", SpaceChecker_check(BodyChecked, comp.space_checks))
    /\ FoundBy("channel",
               ChannelRulesChecker_check(out.text, comp.channel_rules))
    /\ out.report = format([out.errors EXCEPT !.spelling = <<>>],
                           comp.show_emoji, comp.max_suggestions)

\* C11: when the oracle call fails in any way (network error, timeout,
\* error status, malformed payload), the spelling checker gives the empty
\* list without raising, and the check run still returns the report of
\* the findings of the custom, spacing and channel checkers.
C11_OracleFailureDegradesSilently ==
    (op = "check_text" /\ out.valid /\ Ran("spelling") /\ OracleFailed)
        => DegradedSilently

\* the same for the failures that raise inside SpellingChecker.check
C11_RaisedFailureDegradesSilently ==
    (op = "check_text" /\ out.valid /\ Ran("spelling") /\ ~out.oracle.ok)
        => DegradedSilently

\* a failed call in a run whose other checkers found something
C11_WitnessRaisedFailure ==
    /\ op = "check_text"
    /\ out.valid
    /\ Ran("spelling")
    /\ out.oracle.fault = "timeout"
    /\ out.errors.custom # <<>>
    /\ out.errors.channel # <<>>
    /\ DegradedSilently

\* the answer of the oracle the spelling checker ran on
Heard == out.oracle.errors

\* the oracle's n-th misspelling is an ignore word, letter case aside
Ignored(n) ==
    \E i \in 1..Len(out.ignore_words) :
        lower(out.ignore_words[i]) = lower(Heard[n].word)

\* the place in the oracle's answer of the k-th misspelling not ignored
KeptAt(k) ==
    CHOOSE n \in 1..Len(Heard) :
        /\ ~Ignored(n)
        /\ Cardinality({m \in 1..(n - 1) : ~Ignored(m)}) = k - 1

\* C12: no spelling finding is for a word that equals an ignore word
\* once both are lowercased; every other misspelling of the oracle's
\* answer is a finding, in the oracle's order, with all its suggestions.
C12_IgnoreWordsFiltered ==
    (out.checker = "spelling" /\ out.done) =>
        /\ Len(out.findings)
               = Cardinality({n \in 1..Len(Heard) : ~Ignored(n)})
        /\ \A k \in 1..Len(out.findings) :
               /\ out.findings[k].word = Str(Heard[KeptAt(k)].word)
               /\ out.findings[k].suggestions
                      = Some([i \in 1..Len(Heard[KeptAt(k)].s[1]) |->
                                 Str(Heard[KeptAt(k)].s[1][i])])

\* an ignore word heard in another letter case before a misspelling that
\* is kept with its two suggestions
C12_Witness ==
    /\ out.checker = "spelling"
    /\ out.done
    /\ out.ignore_words = << <<"c", "d">> >>
    /\ Len(Heard) = 2
    /\ Heard[1].word = <<"C", "D">>
    /\ Len(out.findings) = 1
    /\ out.findings[1].word = "ef"
    /\ out.findings[1].suggestions = Some(<<"ce", "cf">>)

---------------------------------------------------------------------------
(* Custom rules.                                                           *)

\* a and b are the same string, letter case aside
SameLetters(a, b) ==
    /\ Len(a) = Len(b)
    /\ \A k \in 1..Len(a) : LowerChar(a[k]) = LowerChar(b[k])

\* the part of the body of the length of the rule's wrong at i
Part(rule, i) == SubSeq(out.text, i, i + Len(rule.wrong) - 1)

\* the places of the body where the rule's wrong occurs as a substring
Occurrences(rule) ==
    {i \in 1..(Len(out.text) - Len(rule.wrong) + 1) :
        IF rule.case_sensitive
        THEN Part(rule, i) = rule.wrong
        ELSE SameLetters(Part(rule, i), rule.wrong)}

\* the findings that suggest the rule's correct
FindingsOf(rule) ==
    {k \in 1..Len(out.findings) :
        out.findings[k].suggestion = Str(rule.correct)}

\* C13: a rule with a wrong and a correct whose wrong occurs exactly once
\* in the body, as a literal substring (in any letter case when the rule
\* is not case sensitive, identically cased when it is), yields exactly
\* one finding, with the substring as it stands in the body and the
\* rule's correct; a rule whose wrong does not occur yields none.
C13_OneOccurrenceOneFinding ==
    (out.checker = "custom" /\ out.done) =>
        \A r \in 1..Len(out.custom_rules) :
            \E rule \in {out.custom_rules[r]} :
                (rule.wrong # <<>> /\ rule.correct # <<>>) =>
                    /\ Occurrences(rule) = {} => FindingsOf(rule) = {}
                    /\ Cardinality(Occurrences(rule)) = 1 =>
                           /\ Cardinality(FindingsOf(rule)) = 1
                           /\ \A k \in FindingsOf(rule), i \in Occurrences(rule) :
                                  /\ out.findings[k].type = "custom"
                                  /\ out.findings[k].word = Str(Part(rule, i))

\* the wrong "ab" written once, in upper case, beside "a." and "Cd"
C13_Witness ==
    /\ out.checker = "custom"
    /\ out.done
    /\ out.custom_rules = <<R1>>
    /\ out.text = <<"a", ".", "A", "B", "C", "d">>
    /\ Len(out.findings) = 1
    /\ out.findings[1].word = "AB"
    /\ out.findings[1].suggestion = "AB"

\* a case sensitive rule and a body that holds its wrong in another case
C13_WitnessCaseSensitive ==
    /\ out.checker = "custom"
    /\ out.done
    /\ out.custom_rules = <<R2>>
    /\ out.text = <<"C", "d", " ", "c", "d">>
    /\ Len(out.findings) = 1
    /\ out.findings[1].word = "cd"

RECURSIVE Scanned(_, _, _)
\* the places of occ taken from left to right from the place from on, each
\* one after the end of the occurrence (of length len) taken before it
Scanned(occ, len, from) ==
    IF \A i \in occ : i < from
    THEN <<>>
    ELSE <<Least({j \in occ : j >= from})>>
             \o Scanned(occ, len, Least({j \in occ : j >= from}) + len)

\* the non-overlapping occurrences of a rule, none for a rule that lacks
\* its wrong or its correct
Taken(rule) ==
    IF rule.wrong = <<>> \/ rule.correct = <<>>
    THEN <<>>
    ELSE Scanned(Occurrences(rule), Len(rule.wrong), 1)

\* the number of findings of the rules before the r-th
FoundBefore(r) ==
    LET F[n \in 0..Len(out.custom_rules)] ==
            IF n = 0 THEN 0 ELSE F[n - 1] + Len(Taken(out.custom_rules[n]))
    IN  F[r - 1]

\* C14: the custom findings are those of the first rule, then those of
\* the second, and so on; those of one rule follow its non-overlapping
\* occurrences from left to right; every rule is applied to the whole
\* body whatever the other rules matched, so the number of findings is
\* the sum of the rules' own counts.
C14_FindingsInRuleThenTextOrder ==
    (out.checker = "custom" /\ out.done) =>
        /\ Len(out.findings) = FoundBefore(Len(out.custom_rules) + 1)
        /\ \A r \in 1..Len(out.custom_rules) :
               \A k \in 1..Len(Taken(out.custom_rules[r])) :
                   \E f \in {out.findings[FoundBefore(r) + k]} :
                       /\ f.suggestion = Str(out.custom_rules[r].correct)
                       /\ f.word = Str(Part(out.custom_rules[r],
                                            Taken(out.custom_rules[r])[k]))

\* "ab" three times and "aba" overlapping it (and itself): three findings
\* of the first rule, then one of the second
C14_Witness ==
    /\ out.checker = "custom"
    /\ out.done
    /\ out.custom_rules = <<R1, RuleABA>>
    /\ out.text = <<"a", "b", "A", "B", "a", "b">>
    /\ Len(out.findings) = 4
    /\ out.findings[2].word = "AB"
    /\ out.findings[3].word = "ab"
    /\ out.findings[4].word = "abA"
    /\ out.findings[4].suggestion = "ABA"

---------------------------------------------------------------------------
(* Spacing.                                                                *)

\* the sub-check is enabled in the space checker that ran
SubCheck(key) ==
    IF key \in DOMAIN out.space_checks THEN out.space_checks[key] ELSE TRUE

Marks == {",", ".", "!", "?", ";", ":"}

\* the characters of the body from a to b are spaces, and not those next
\* to them
SpaceRun(a, b) ==
    /\ \A k \in a..b : out.text[k] = " "
    /\ a > 1 => out.text[a - 1] # " "
    /\ b < Len(out.text) => out.text[b + 1] # " "

\* the runs of two or more spaces with a non-space token right before
\* and right after
RunsBetweenTokens ==
    {r \in (2..Len(out.text)) \X (2..(Len(out.text) - 1)) :
        /\ r[2] > r[1]
        /\ SpaceRun(r[1], r[2])
        /\ out.text[r[1] - 1] \notin WhiteSpace
        /\ out.text[r[2] + 1] \notin WhiteSpace}

\* the token that ends at e, and the one that starts at b
TokenEndingAt(e) ==
    SubSeq(out.text,
           CHOOSE a \in 1..e :
               /\ \A k \in a..e : out.text[k] \notin WhiteSpace
               /\ a > 1 => out.text[a - 1] \in WhiteSpace,
           e)

TokenStartingAt(b) ==
    SubSeq(out.text, b,
           CHOOSE e \in b..Len(out.text) :
               /\ \A k \in b..e : out.text[k] \notin WhiteSpace
               /\ e < Len(out.text) => out.text[e + 1] \in WhiteSpace)

\* the findings whose message begins as given
FindingsSaying(n, begins) ==
    {k \in 1..Len(out.findings) :
        \E tail \in {ToString(i) \o " podryad)" : i \in 2..n}
                     \cup {c \o "\"" : c \in Marks} :
            out.findings[k].message = begins \o tail}

MultipleSpacesFound == FindingsSaying(Len(out.text), "Lishnie probely (")

\* the places where a space stands right before a mark, and those where a
\* mark stands right before a letter
SpacesBeforeMark ==
    {p \in 1..(Len(out.text) - 1) :
        out.text[p] = " " /\ out.text[p + 1] \in Marks}

MarksBeforeLetter ==
    {p \in 1..(Len(out.text) - 1) :
        out.text[p] \in Marks /\ IsLetter(out.text[p + 1])}

\* C15: with the multiple-spaces sub-check enabled, every run of two or
\* more spaces between two non-space tokens yields one finding, which
\* tells the number of spaces and suggests the two tokens joined by one
\* space; a body with exactly one such run and no other spacing issue
\* yields exactly one finding.
C15_EveryRunOfSpacesFound ==
    (out.checker = "spaces" /\ out.done /\ SubCheck("multiple_spaces")) =>
        /\ Cardinality(MultipleSpacesFound) = Cardinality(RunsBetweenTokens)
        /\ \A r \in RunsBetweenTokens :
               \E k \in MultipleSpacesFound :
                   /\ out.findings[k].message
                          = "Lishnie probely (" \o ToString(r[2] - r[1] + 1)
                                \o " podryad)"
                   /\ out.findings[k].suggestion
                          = Str(TokenEndingAt(r[1] - 1)) \o " "
                                \o Str(TokenStartingAt(r[2] + 1))
        /\ (/\ Cardinality(RunsBetweenTokens) = 1
            /\ SpacesBeforeMark = {}
            /\ MarksBeforeLetter = {}) => Len(out.findings) = 1

\* the same for a body with exactly one run of spaces between tokens
C15_OneRunOfSpacesFound ==
    (/\ out.checker = "spaces" /\ out.done /\ SubCheck("multiple_spaces")
     /\ Cardinality(RunsBetweenTokens) = 1) =>
        /\ Cardinality(MultipleSpacesFound) = 1
        /\ \A r \in RunsBetweenTokens, k \in MultipleSpacesFound :
               /\ out.findings[k].message
                      = "Lishnie probely (" \o ToString(r[2] - r[1] + 1)
                            \o " podryad)"
               /\ out.findings[k].suggestion
                      = Str(TokenEndingAt(r[1] - 1)) \o " "
                            \o Str(TokenStartingAt(r[2] + 1))

NoSpaceAfterFound == FindingsSaying(2, "Net probela posle \"")

\* the body with one space put in after place p
WithSpaceAfter(p) ==
    SubSeq(out.text, 1, p) \o <<" ">> \o SubSeq(out.text, p + 1, Len(out.text))

\* the finding names the mark at p and suggests, for the part of the body
\* it quotes, that part with one space put in after the mark
SuggestsSpaceAfter(k, p) ==
    /\ out.findings[k].message = "Net probela posle \"" \o out.text[p] \o "\""
    /\ \E a \in 1..p, b \in (p + 1)..Len(out.text) :
           /\ out.findings[k].word = Str(SubSeq(out.text, a, b))
           /\ out.findings[k].suggestion
                  = Str(SubSeq(WithSpaceAfter(p), a, b + 1))

\* C16: with the no-space-after-punctuation sub-check enabled, every mark
\* of , . ! ? ; : that a letter follows at once yields one finding, which
\* suggests one space after that mark; a body with exactly one such mark
\* yields exactly one such finding.
C16_EveryMarkBeforeLetterFound ==
    (/\ out.checker = "spaces" /\ out.done
     /\ SubCheck("no_space_after_punctuation")) =>
        /\ Cardinality(NoSpaceAfterFound) = Cardinality(MarksBeforeLetter)
        /\ \A p \in MarksBeforeLetter :
               \E k \in NoSpaceAfterFound : SuggestsSpaceAfter(k, p)

\* what the sub-check does find: a mark inside a token, a letter right
\* after it, and one finding for the token, about the last such mark
C16_LastMarkOfTokenFound ==
    (/\ out.checker = "spaces" /\ out.done
     /\ SubCheck("no_space_after_punctuation")) =>
        \A p \in MarksBeforeLetter :
            (/\ p > 1
             /\ out.text[p - 1] \notin WhiteSpace
             /\ \A q \in MarksBeforeLetter :
                    q > p => \E j \in p..q : out.text[j] \in WhiteSpace)
                => \E k \in NoSpaceAfterFound : SuggestsSpaceAfter(k, p)

\* C17: a body with no run of two or more spaces, no space right before a
\* mark of , . ! ? ; : and no such mark right before a letter yields no
\* finding of the space checker with all three sub-checks enabled.
C17_CleanSpacingNoFindings ==
    (/\ out.checker = "spaces" /\ out.done
     /\ SubCheck("multiple_spaces")
     /\ SubCheck("space_before_punctuation")
     /\ SubCheck("no_space_after_punctuation")
     /\ \A p \in 1..(Len(out.text) - 1) :
            ~(out.text[p] = " " /\ out.text[p + 1] = " ")
     /\ SpacesBeforeMark = {}
     /\ MarksBeforeLetter = {}) => out.findings = <<>>

\* a mark with one space after it, and a mark at the end
C17_Witness ==
    /\ out.checker = "spaces"
    /\ out.done
    /\ out.space_checks = <<>>
    /\ out.text = <<"x", ",", " ", "x", ",">>
    /\ out.findings = <<>>

\* a mark before a digit
C17_WitnessDigit ==
    /\ out.checker = "spaces"
    /\ out.done
    /\ out.space_checks = <<>>
    /\ out.text = <<"x", ",", "1">>
    /\ out.findings = <<>>

---------------------------------------------------------------------------
(* Channel rules.                                                          *)

\* the first line of the checked text, and its body: what follows the
\* first line break (nothing when there is none)
Line1 == FirstLineOf(out.text)

BodyStart == Len(Line1) + 2

\* where the channel label (in any letter case, white space after it)
\* first stands in the line; 0 when it does not
LabelIn(line) ==
    LeastOr0({i \in 1..(Len(line) - Len(ChannelLabel)) :
                 /\ SameLetters(SubSeq(line, i, i + Len(ChannelLabel) - 1),
                                ChannelLabel)
                 /\ line[i + Len(ChannelLabel)] \in WhiteSpace})

LabelAt == LabelIn(Line1)

\* the part of the line after the label that stands at the place at
AfterLabelIn(line, at) == SubSeq(line, at + Len(ChannelLabel), Len(line))

\* s up to the first of the delimiters, trimmed
UpTo(s, delimiters) ==
    strip(SubSeq(s, 1,
                 IF \E k \in 1..Len(s) : s[k] \in delimiters
                 THEN Least({k \in 1..Len(s) : s[k] \in delimiters}) - 1
                 ELSE Len(s)))

\* what follows the label up to the first of the delimiters, trimmed
NameUpTo(delimiters) == UpTo(AfterLabelIn(Line1, LabelAt), delimiters)

\* the channel name as the first line gives it, and its lookup key
NameGiven == NameUpTo({":", "("})

KeyGiven == lower(NameGiven)

\* the first line names a channel that has a rule, with the parenthesis
\* right after the name
NamedWithParenthesis ==
    /\ LabelAt # 0
    /\ NameGiven # <<>>
    /\ NameGiven = NameUpTo({"("})
    /\ KeyGiven \in DOMAIN out.channel_rules

\* the signature format of the channel the first line names
FormatGiven == out.channel_rules[KeyGiven].signature_format

\* the format is a literal tail: it holds a line break and asks for
\* nothing in words
LiteralTail(f) ==
    /\ \E k \in 1..Len(f) : f[k] = "\n"
    /\ ~Contains(lower(f), LineBreakWords)
    /\ ~Contains(lower(f), SpaceWord)

\* the body ends with the tail
EndsWith(tail) ==
    /\ BodyStart + Len(tail) - 1 <= Len(out.text)
    /\ SubSeq(out.text, Len(out.text) - Len(tail) + 1, Len(out.text)) = tail

\* shown is the tail with a visible mark for each of its line breaks
Rendered(tail, shown) ==
    /\ Len(shown) = Len(tail)
    /\ \A k \in 1..Len(tail) :
           IF tail[k] = "\n"
           THEN shown[k] \notin WhiteSpace
           ELSE shown[k] = tail[k]

\* C18: when the signature format of the channel is a literal tail, a
\* body that does not end with exactly that tail yields exactly one
\* channel finding, whose expected value is the tail with its line breaks
\* shown as a visible mark, and a body that ends with it yields none.
C18_LiteralTailIsRequiredSuffix ==
    (/\ out.checker = "channel" /\ out.done
     /\ NamedWithParenthesis
     /\ LiteralTail(FormatGiven)) =>
        IF EndsWith(FormatGiven)
        THEN out.findings = <<>>
        ELSE /\ Len(out.findings) = 1
             /\ Rendered(FormatGiven, out.findings[1].expected)

\* what holds of a literal tail: a body that ends with it yields nothing
C18_BodyEndingWithTailPasses ==
    (/\ out.checker = "channel" /\ out.done
     /\ NamedWithParenthesis
     /\ LiteralTail(FormatGiven)
     /\ EndsWith(FormatGiven)) => out.findings = <<>>

\* the places from the place from on where a handle stands: "@" and a
\* word character after it
HandlesFrom(from) ==
    {p \in from..(Len(out.text) - 1) :
        out.text[p] = "@" /\ IsWord(out.text[p + 1])}

\* the format asks for a line break; it asks for a space
AsksLineBreak(f) == Contains(lower(f), LineBreakWords)

AsksSpace(f) == Contains(lower(f), SpaceWord) /\ ~AsksLineBreak(f)

\* the findings are as the format f asks for the handles at the places H:
\* one missing-signature finding when there is no handle; otherwise one
\* finding exactly when the first handle does not follow a line break
\* (line break asked for), or does follow one (space asked for)
SignatureJudged(f, H) ==
    IF H = {}
    THEN /\ Len(out.findings) = 1
         /\ out.findings[1].message
                = "Otsutstvuet podpis kanala dlya " \o Str(NameGiven)
    ELSE /\ Len(out.findings) <= 1
         /\ AsksLineBreak(f) =>
                (out.findings # <<>> <=> out.text[Least(H) - 1] # "\n")
         /\ AsksSpace(f) =>
                (out.findings # <<>> <=> out.text[Least(H) - 1] = "\n")

\* C19: the handle is looked for in the body.  When the format asks for
\* a line break there is a finding exactly when the character right
\* before the handle is not a line break; when it asks for a space,
\* exactly when that character is a line break; a body without a handle
\* yields exactly one missing-signature finding.
C19_HandleOfBodyJudged ==
    (/\ out.checker = "channel" /\ out.done
     /\ NamedWithParenthesis
     /\ BodyStart <= Len(out.text) + 1) =>
        SignatureJudged(FormatGiven, HandlesFrom(BodyStart))

\* what holds: the same with the handle looked for in the whole text,
\* the first line included
C19_HandleOfWholeTextJudged ==
    (/\ out.checker = "channel" /\ out.done
     /\ NamedWithParenthesis) =>
        SignatureJudged(FormatGiven, HandlesFrom(2))

\* C20: the channel name is what follows the label in the first line up
\* to the first colon or opening parenthesis, and the rule stored under
\* that name, trimmed and lowercased, is the one applied.
C20_NameEndsAtColonOrParenthesis ==
    (out.checker = "channel" /\ out.done /\ LabelAt # 0) =>
        out.findings
            = ChannelNamed(out.text, out.channel_rules, NameGiven)

\* what holds: the name ends at the first opening parenthesis only
C20_NameEndsAtParenthesis ==
    (out.checker = "channel" /\ out.done /\ LabelAt # 0) =>
        out.findings
            = ChannelNamed(out.text, out.channel_rules, NameUpTo({"("}))

---------------------------------------------------------------------------
(* The report.                                                             *)

\* format has returned
Formatted == out.checker = "format" /\ out.done

\* the findings of a category of the map given to format
CountOf(category) ==
    IF category \in DOMAIN out.errors THEN Len(out.errors[category]) ELSE 0

TotalFound ==
    CountOf("custom") + CountOf("spelling") + CountOf("spaces")
        + CountOf("channel")

\* the text begins with prefix
BeginsWith(text, prefix) ==
    Len(text) >= Len(prefix) /\ SubSeq(text, 1, Len(prefix)) = prefix

NoErrorsText == "Oshibok ne naydeno!"
CheckMark == "[ok] "

\* C21: when the findings of the four categories number zero, absent
\* categories counting as empty, format returns the fixed "no errors"
\* message, with the check mark before it exactly when show_emoji is
\* true, and never the empty string.
C21_NoFindingsFixedMessage ==
    (Formatted /\ TotalFound = 0) =>
        /\ out.report # ""
        /\ out.report \in {NoErrorsText, CheckMark \o NoErrorsText}
        /\ BeginsWith(out.report, CheckMark) <=> out.show_emoji

\* a map with absent categories and an empty one, formatted undecorated
C21_Witness ==
    /\ Formatted
    /\ TotalFound = 0
    /\ DOMAIN out.errors = {"custom", "channel"}
    /\ ~out.show_emoji
    /\ out.report = NoErrorsText

\* The report read back line by line.  LineStarts: where its lines begin;
\* LineAt: the line that begins at i, without its line break.
LineBreaks(text) == {i \in 1..Len(text) : SubSeq(text, i, i) = "\n"}

LineStarts(text) ==
    {1} \cup {i + 1 : i \in {j \in LineBreaks(text) : j < Len(text)}}

LineAt(text, i) ==
    SubSeq(text, i,
           Least({j \in LineBreaks(text) \cup {Len(text) + 1} : j >= i}) - 1)

FinishesWith(text, suffix) ==
    /\ Len(text) >= Len(suffix)
    /\ SubSeq(text, Len(text) - Len(suffix) + 1, Len(text)) = suffix

Mentions(text, part) ==
    \E i \in 1..(Len(text) - Len(part) + 1) :
        SubSeq(text, i, i + Len(part) - 1) = part

\* the categories in the order of their sections, and their titles
SectionOrder == <<"custom", "spelling", "spaces", "channel">>

TitleOf(category) ==
    CASE category = "custom" -> "**Nepravilnoe napisanie:**"
      [] category = "spelling" -> "**Orfografiya:**"
      [] category = "spaces" -> "**Probely:**"
      [] category = "channel" -> "**Pravila kanala:**"

HeaderText == "Naydeno oshibok: "

\* the members of a set of positions, in increasing order
RECURSIVE InOrder(_)
InOrder(S) ==
    IF S = {} THEN <<>> ELSE <<Least(S)>> \o InOrder(S \ {Least(S)})

\* where the title lines of the report begin, and the category of each
TitleStarts(text) ==
    {i \in LineStarts(text) :
        \E c \in Categories : FinishesWith(LineAt(text, i), TitleOf(c))}

CategoryTitled(line) ==
    CHOOSE c \in Categories : FinishesWith(line, TitleOf(c))

SectionsIn(text, titles) ==
    [n \in 1..Len(titles) |-> CategoryTitled(LineAt(text, titles[n]))]

\* the categories that hold findings, in section order
RECURSIVE NonEmptyFrom(_)
NonEmptyFrom(n) ==
    IF n > Len(SectionOrder)
    THEN <<>>
    ELSE (IF CountOf(SectionOrder[n]) > 0
          THEN <<SectionOrder[n]>> ELSE <<>>) \o NonEmptyFrom(n + 1)

\* a line of a numbered list
IsNumbered(line) ==
    \E k \in 1..9 : BeginsWith(line, ToString(k) \o ". ")

\* where the numbered lines of the section titled at position at begin:
\* those between that title and the next one (or the end of the report)
NumberedIn(text, at, titles) ==
    InOrder({i \in LineStarts(text) :
                /\ i > at
                /\ \A t \in titles : t > at => i < t
                /\ IsNumbered(LineAt(text, i))})

\* what a numbered line shows of its finding
ShownOf(category, finding) ==
    IF category = "channel"
    THEN finding.message
    ELSE "<" \o finding.word \o ">"

\* the section of category, titled at position at, lists the findings of
\* the category numbered from 1 in their order
SectionLists(text, category, numbered) ==
    /\ Len(numbered) = CountOf(category)
    /\ \A k \in 1..Len(numbered) :
           /\ BeginsWith(LineAt(text, numbered[k]), ToString(k) \o ". ")
           /\ Mentions(LineAt(text, numbered[k]),
                       ShownOf(category, out.errors[category][k]))

ReportLaidOut(text, titles) ==
    /\ FinishesWith(LineAt(text, 1), HeaderText \o ToString(TotalFound))
    /\ 1 \notin titles
    /\ SectionsIn(text, InOrder(titles)) = NonEmptyFrom(1)
    /\ \A t \in titles :
           SectionLists(text, CategoryTitled(LineAt(text, t)),
                        NumberedIn(text, t, titles))

\* C22: a report of at least one finding starts with a header stating the
\* total, the sum of the four categories' counts; then comes exactly one
\* section for every category that holds findings and none for the
\* others, in the order custom, spelling, spaces, channel; each section
\* lists its findings numbered from 1 in the order they were given.
C22_ReportLaidOutInSections ==
    (Formatted /\ TotalFound > 0) =>
        ReportLaidOut(out.report, TitleStarts(out.report))

\* a report with all four sections, two findings in three of them
C22_Witness ==
    /\ Formatted
    /\ \A c \in Categories : CountOf(c) > 0
    /\ CountOf("custom") = 2 /\ CountOf("spelling") = 2
    /\ CountOf("spaces") = 2
    /\ Cardinality(TitleStarts(out.report)) = 4

\* a report of one category, the others absent or empty
C22_WitnessOneSection ==
    /\ Formatted
    /\ DOMAIN out.errors = {"spelling", "spaces"}
    /\ CountOf("spelling") = 0 /\ CountOf("spaces") = 1
    /\ Cardinality(TitleStarts(out.report)) = 1

---------------------------------------------------------------------------
(* A checker called twice.                                                 *)

CalledTwice == out.checker \in Categories /\ "runs" \in DOMAIN out
                   /\ out.runs = 2

C23_WitnessSpelling ==
    /\ CalledTwice
    /\ out.checker = "spelling"
    /\ out.answers[2] = out.answers[1]
    /\ Len(out.first) = 2

---------------------------------------------------------------------------
(* What reload returns.                                                    *)

\* reload() has returned, to handle_reload_button or to reload_config
Reloaded == op \in {"reload", "reload_config"}

\* the call updated the configuration in effect: it is not what it was
\* before the call, or the file was loaded anew, or a feed of the
\* spreadsheet gave rules that were assigned
ConfigUpdated ==
    \/ heap[config] # pre.cfg
    \/ last_modified > pre.last_modified
    \/ /\ is_available
       /\ \/ load_custom_rules(feed.custom) # <<>>
          \/ load_channel_rules(feed.channel) # <<>>

\* C24: reload returns True exactly when the call updated the current
\* configuration, with or without a spreadsheet loader.
C24_ReloadTrueIffConfigUpdated ==
    Reloaded => (out.result <=> ConfigUpdated)

\* what holds: with a spreadsheet loader reload returns True whatever
\* happened; without one it returns whether the file was loaded anew
C24_ReloadTrueIffSheetsOrFileLoaded ==
    Reloaded =>
        (out.result <=>
             (sheets # "none" \/ last_modified > pre.last_modified))

---------------------------------------------------------------------------
(* The gate of handle_message.                                             *)

Handled == op = "handle_message"

\* the minimum body length of the configuration that check_text loads
\* for the rule source as it stands
MinInSource == _init_components(_load(Loader)).min_text_length

\* the message is reviewable under that configuration
ReviewableInSource == validate_and_extract(out.text, MinInSource)[1]

\* C25: the gate that handle_message applies before checking uses the
\* minimum body length of the configuration that check_text loads for
\* the message, so a message that is reviewable under the configuration
\* now in the rule source receives a reply.
C25_GateUsesLengthOfLoadedConfig ==
    Handled =>
        /\ pre.min_text_length = MinInSource
        /\ ReviewableInSource => out.replied

\* what holds: the gate uses the minimum length of the validator as it
\* was last built, and a reply is sent exactly when the message passes
\* both that gate and the validator built from the fresh load
C25_GateUsesLengthLastBuilt ==
    Handled =>
        /\ out.gate = validate_and_extract(out.text, pre.min_text_length)[1]
        /\ out.replied <=> (out.gate /\ ReviewableInSource)

---------------------------------------------------------------------------
(* The fallback to the defaults.                                           *)

\* _load has run (in check_text, or in reload without a spreadsheet
\* loader) when the defaults were the configuration in effect, and it
\* found the config file present and parseable
LoadedOverDefaults ==
    /\ op = "check_text" \/ (Reloaded /\ sheets = "none")
    /\ pre.cfg = DefaultConfig
    /\ file.status = "ok"

\* the configuration a loader constructed now would hold: the file's
\* contents, with the rules of the spreadsheet where it gives any
FileConfig == Construct.L.heap[Construct.L.config]

\* C26: the defaults do not stick: the next _load that finds the file
\* present and parseable makes the file's contents current again.
C26_DefaultsDoNotStick ==
    LoadedOverDefaults => heap[config] = FileConfig

\* what holds: the file's contents become current again when the file's
\* modification time is later than that of the last file loaded
C26_NewerFileReplacesDefaults ==
    (LoadedOverDefaults /\ file.mtime > pre.last_modified) =>
        heap[config] = FileConfig

---------------------------------------------------------------------------
(* Loading from the spreadsheet.                                           *)

\* _load_from_google_sheets has run with the spreadsheet available: in
\* reload with a spreadsheet loader, or in the _load of check_text that
\* read a newer file
SheetsAsked ==
    /\ is_available
    /\ \/ Reloaded
       \/ op = "check_text" /\ file.status = "ok"
              /\ last_modified > pre.last_modified

\* the configuration it started from: the one in effect for reload, the
\* file's contents for _load
LoadedOnto == IF Reloaded THEN pre.cfg ELSE file.content

\* the key is in b what it is in a: the same value, or absent from both
SameKey(a, b, key) ==
    /\ key \in DOMAIN a <=> key \in DOMAIN b
    /\ key \in DOMAIN a => a[key] = b[key]

\* the key holds the feed's result when there is one, and is left as it
\* was otherwise
KeyFromFeed(key, result) ==
    IF result # <<>>
    THEN key \in DOMAIN heap[config] /\ heap[config][key] = result
    ELSE SameKey(heap[config], LoadedOnto, key)

\* C27: with the spreadsheet available, a feed's non-empty result
\* replaces custom_rules (channel_rules) whole, an empty result leaves
\* the key as it was, and every other key is left as it was.
C27_FeedReplacesItsKeyOnly ==
    SheetsAsked =>
        /\ KeyFromFeed("custom_rules", load_custom_rules(feed.custom))
        /\ KeyFromFeed("channel_rules", load_channel_rules(feed.channel))
        /\ \A key \in (DOMAIN heap[config] \cup DOMAIN LoadedOnto)
                          \ {"custom_rules", "channel_rules"} :
               SameKey(heap[config], LoadedOnto, key)

\* a reload that replaced the custom rules the file had given by those
\* of the feed and left the channel rules, their feed giving nothing
C27_Witness ==
    /\ SheetsAsked
    /\ Reloaded
    /\ load_custom_rules(feed.custom) # <<>>
    /\ Get(pre.cfg, "custom_rules", <<>>) \notin
           {<<>>, load_custom_rules(feed.custom)}
    /\ heap[config].custom_rules = load_custom_rules(feed.custom)
    /\ load_channel_rules(feed.channel) = <<>>

\* a check that read a newer file that leaves keys out, the feeds giving
\* both kinds of rules
C27_WitnessNewerFile ==
    /\ SheetsAsked
    /\ op = "check_text"
    /\ file.content = F4
    /\ heap[config].custom_rules = load_custom_rules(feed.custom)
    /\ heap[config].channel_rules = load_channel_rules(feed.channel)
    /\ "response" \notin DOMAIN heap[config]

====
